---------------------------- MODULE Spec2Model ----------------------------
(***************************************************************************)
(* Model of the YPBank record serialization library (crate `parser`).     *)
(*                                                                         *)
(* The streams of the three formats are sequences of bytes 0..255.  A     *)
(* text (a String) is a sequence of one-character strings; a character    *)
(* outside the alphabet (a control character, a character above U+007E)   *)
(* is the string that names its code point, "U+00E9".  `as_bytes` and     *)
(* `from_utf8` convert between a text and its UTF-8 encoding, and         *)
(* `to_uppercase` and `to_lowercase` map every character of Unicode.      *)
(* Field values stay far below 2^31 (the range of TLC integers); the      *)
(* fixed-width big-endian encodings are still produced byte by byte with  *)
(* their full width of 8, 4 or 1 bytes.  A byte length (a usize) that may *)
(* reach 2^32 is a number of two digits of base 2^16, and the u32         *)
(* arithmetic of get_record_size keeps its 32 bits.  A description of     *)
(* about 2^32 bytes is one letter and its count; SpecLarge writes and     *)
(* reads such records with the binary codec.                              *)
(***************************************************************************)
EXTENDS Integers, Sequences, FiniteSets, TLC

(***************************************************************************)
(* Bounds of the model.                                                    *)
(***************************************************************************)
\* longest line handed to a Separator
MaxLine == 5

\* longest record list handed to write_to
MaxRecs == 2

(***************************************************************************)
(* Characters.                                                             *)
(***************************************************************************)
\* printable ASCII, code 32 .. 126, in code order (code 96 is spelled GRAVE)
AsciiTable ==
  << " ", "!", "\"", "#", "$", "%", "&", "'", "(", ")", "*", "+", ",", "-",
     ".", "/", "0", "1", "2", "3", "4", "5", "6", "7", "8", "9", ":", ";",
     "<", "=", ">", "?", "@", "A", "B", "C", "D", "E", "F", "G", "H", "I",
     "J", "K", "L", "M", "N", "O", "P", "Q", "R", "S", "T", "U", "V", "W",
     "X", "Y", "Z", "[", "\\", "]", "^", "_", "GRAVE", "a", "b", "c", "d", "e",
     "f", "g", "h", "i", "j", "k", "l", "m", "n", "o", "p", "q", "r", "s",
     "t", "u", "v", "w", "x", "y", "z", "{", "|", "}", "~" >>

\* the code of each character of the alphabet: printable ASCII, \t, \n, \r
AsciiCodes ==
  [c \in {AsciiTable[i] : i \in 1..Len(AsciiTable)} \cup {"\n", "\t", "\r"} |->
     IF c = "\n" THEN 10
     ELSE IF c = "\t" THEN 9
     ELSE IF c = "\r" THEN 13
     ELSE 31 + (CHOOSE i \in 1..Len(AsciiTable) : AsciiTable[i] = c)]

\* char::is_whitespace: the characters with the White_Space property
IsWhitespace(c) ==
  c \in {" ", "\n", "\t", "\r", "U+000B", "U+000C", "U+0085", "U+00A0", "U+1680",
         "U+2000", "U+2001", "U+2002", "U+2003", "U+2004", "U+2005", "U+2006",
         "U+2007", "U+2008", "U+2009", "U+200A", "U+2028", "U+2029", "U+202F",
         "U+205F", "U+3000"}

RECURSIVE TrimStart(_)
TrimStart(s) ==
  IF s = <<>> THEN s
  ELSE IF IsWhitespace(Head(s)) THEN TrimStart(Tail(s)) ELSE s

RECURSIVE TrimEnd(_)
TrimEnd(s) ==
  IF s = <<>> THEN s
  ELSE IF IsWhitespace(s[Len(s)]) THEN TrimEnd(SubSeq(s, 1, Len(s) - 1)) ELSE s

\* str::trim
trim(s) == TrimEnd(TrimStart(s))

RECURSIVE Concat(_)
\* concatenation of a sequence of sequences
Concat(ss) ==
  IF ss = <<>> THEN <<>>
  ELSE IF Len(ss) = 1 THEN ss[1]
  ELSE Concat(SubSeq(ss, 1, Len(ss) \div 2)) \o Concat(SubSeq(ss, Len(ss) \div 2 + 1, Len(ss)))

(***************************************************************************)
(* Characters outside the alphabet.                                        *)
(***************************************************************************)
HexDigits == <<"0", "1", "2", "3", "4", "5", "6", "7", "8", "9", "A", "B", "C", "D", "E", "F">>

\* char::from_u32 for a scalar value: a character of the alphabet, or the
\* name of the code point with four to six hexadecimal digits
char_from_u32(cp) ==
  LET h(k) == HexDigits[((cp \div k) % 16) + 1]
      name(high, low) ==
        IF cp < 65536 THEN "U+" \o low
        ELSE IF cp < 1048576 THEN "U+" \o high \o low
        ELSE "U+" \o h(1048576) \o high \o low
  IN IF cp = 10 THEN "\n"
     ELSE IF cp = 9 THEN "\t"
     ELSE IF cp = 13 THEN "\r"
     ELSE IF cp >= 32 /\ cp <= 126 THEN AsciiTable[cp - 31]
     ELSE name(h(65536), h(4096) \o h(256) \o h(16) \o h(1))

\* the characters whose encoding has one byte, by code point
CharTable == [cp \in 0..127 |-> char_from_u32(cp)]

\* char as u32: the code of a character of the alphabet, or the number
\* that the hexadecimal digits of the name of the code point spell
code_point(c) ==
  LET digit(k) == (CHOOSE d \in 1..16 : HexDigits[d] = SubSeq(c, k, k)) - 1
      place(j) == IF Len(c) - j >= 3 THEN digit(Len(c) - j) * 16 ^ j ELSE 0
  IN IF c \in DOMAIN AsciiCodes THEN AsciiCodes[c]
     ELSE place(0) + place(1) + place(2) + place(3) + place(4) + place(5)

\* char::encode_utf8
encode_utf8(cp) ==
  IF cp < 128 THEN <<cp>>
  ELSE IF cp < 2048 THEN <<192 + (cp \div 64), 128 + (cp % 64)>>
  ELSE IF cp < 65536
    THEN <<224 + (cp \div 4096), 128 + ((cp \div 64) % 64), 128 + (cp % 64)>>
  ELSE <<240 + (cp \div 262144), 128 + ((cp \div 4096) % 64),
         128 + ((cp \div 64) % 64), 128 + (cp % 64)>>

\* str::as_bytes
as_bytes(s) ==
  IF \A i \in 1..Len(s) : s[i] \in DOMAIN AsciiCodes
    THEN [i \in 1..Len(s) |-> AsciiCodes[s[i]]]
    ELSE Concat([i \in 1..Len(s) |-> encode_utf8(code_point(s[i]))])

(***************************************************************************)
(* Case mapping (str::to_uppercase, str::to_lowercase).                    *)
(***************************************************************************)
\* the tables of core::unicode as of Unicode 17.0 (a character assigned
\* later has no entry), written as rows of code points and numbers of five
\* hexadecimal digits each.  upper and lower hold the characters with a
\* one-character mapping as <<first, last, step, offset>> (the offset is
\* written with 80000 added); upper_many and lower_many hold those with a
\* mapping of several characters as <<character, mapping>> (written as the
\* character, the length of the mapping and three places for it); cased
\* and case_ignorable hold the ranges <<first, last>> of the properties
\* Cased and Case_Ignorable
UnicodeData ==
  LET Digit(c) == CHOOSE d \in 0..15 : HexDigits[d + 1] = c
      Number(row, k) ==
        Digit(SubSeq(row, 5 * k - 4, 5 * k - 4)) * 65536 +
        Digit(SubSeq(row, 5 * k - 3, 5 * k - 3)) * 4096 +
        Digit(SubSeq(row, 5 * k - 2, 5 * k - 2)) * 256 +
        Digit(SubSeq(row, 5 * k - 1, 5 * k - 1)) * 16 +
        Digit(SubSeq(row, 5 * k, 5 * k))
      Rows(text, width) ==
        {SubSeq(text, width * k + 1, width * (k + 1)) : k \in 0..(Len(text) \div width - 1)}
      Mappings(text) ==
        {<<Number(row, 1), Number(row, 2), Number(row, 3), Number(row, 4) - 524288>> :
           row \in Rows(text, 20)}
      ManyMappings(text) ==
        {<<Number(row, 1), [k \in 1..Number(row, 2) |-> Number(row, 2 + k)]>> :
           row \in Rows(text, 25)}
      Ranges(text) == {<<Number(row, 1), Number(row, 2)>> : row \in Rows(text, 10)}
  IN [ upper |-> Mappings(
        "000610007A000017FFE0000B5000B500001802E7000E0000F6000017FFE0000F8000FE000017FFE0" \o
        "000FF000FF0000180079001010012F000027FFFF0013100131000017FF180013300137000027FFFF" \o
        "0013A00148000027FFFF0014B00177000027FFFF0017A0017E000027FFFF0017F0017F000017FED4" \o
        "001800018000001800C30018300185000027FFFF0018800188000017FFFF0018C0018C000017FFFF" \o
        "0019200192000017FFFF001950019500001800610019900199000017FFFF0019A0019A00001800A3" \o
        "0019B0019B000018A6410019E0019E0000180082001A1001A5000027FFFF001A8001A8000017FFFF" \o
        "001AD001AD000017FFFF001B0001B0000017FFFF001B4001B6000027FFFF001B9001B9000017FFFF" \o
        "001BD001BD000017FFFF001BF001BF0000180038001C5001C5000017FFFF001C6001C6000017FFFE" \o
        "001C8001C8000017FFFF001C9001C9000017FFFE001CB001CB000017FFFF001CC001CC000017FFFE" \o
        "001CE001DC000027FFFF001DD001DD000017FFB1001DF001EF000027FFFF001F2001F2000017FFFF" \o
        "001F3001F3000017FFFE001F5001F5000017FFFF001F90021F000027FFFF0022300233000027FFFF" \o
        "0023C0023C000017FFFF0023F002400000182A3F0024200242000017FFFF002470024F000027FFFF" \o
        "00250002500000182A1F00251002510000182A1C00252002520000182A1E0025300253000017FF2E" \o
        "0025400254000017FF320025600257000017FF330025900259000017FF360025B0025B000017FF35" \o
        "0025C0025C000018A54F0026000260000017FF330026100261000018A54B0026300263000017FF31" \o
        "0026400264000018A5670026500265000018A5280026600266000018A5440026800268000017FF2F" \o
        "0026900269000017FF2D0026A0026A000018A5440026B0026B00001829F70026C0026C000018A541" \o
        "0026F0026F000017FF2D002710027100001829FD0027200272000017FF2B0027500275000017FF2A" \o
        "0027D0027D00001829E70028000280000017FF260028200282000018A5430028300283000017FF26" \o
        "0028700287000018A52A0028800288000017FF260028900289000017FFBB0028A0028B000017FF27" \o
        "0028C0028C000017FFB90029200292000017FF250029D0029D000018A5150029E0029E000018A512" \o
        "003450034500001800540037100373000027FFFF0037700377000017FFFF0037B0037D0000180082" \o
        "003AC003AC000017FFDA003AD003AF000017FFDB003B1003C1000017FFE0003C2003C2000017FFE1" \o
        "003C3003CB000017FFE0003CC003CC000017FFC0003CD003CE000017FFC1003D0003D0000017FFC2" \o
        "003D1003D1000017FFC7003D5003D5000017FFD1003D6003D6000017FFCA003D7003D7000017FFF8" \o
        "003D9003EF000027FFFF003F0003F0000017FFAA003F1003F1000017FFB0003F2003F20000180007" \o
        "003F3003F3000017FF8C003F5003F5000017FFA0003F8003F8000017FFFF003FB003FB000017FFFF" \o
        "004300044F000017FFE0004500045F000017FFB00046100481000027FFFF0048B004BF000027FFFF" \o
        "004C2004CE000027FFFF004CF004CF000017FFF1004D10052F000027FFFF0056100586000017FFD0" \o
        "010D0010FA0000180BC0010FD010FF0000180BC0013F8013FD000017FFF801C8001C80000017E792" \o
        "01C8101C81000017E79301C8201C82000017E79C01C8301C84000017E79E01C8501C85000017E79D" \o
        "01C8601C86000017E7A401C8701C87000017E7DB01C8801C8800001889C201C8A01C8A000017FFFF" \o
        "01D7901D790000188A0401D7D01D7D0000180EE601D8E01D8E0000188A3801E0101E95000027FFFF" \o
        "01E9B01E9B000017FFC501EA101EFF000027FFFF01F0001F07000018000801F1001F150000180008" \o
        "01F2001F27000018000801F3001F37000018000801F4001F45000018000801F5101F570000280008" \o
        "01F6001F67000018000801F7001F71000018004A01F7201F75000018005601F7601F770000180064" \o
        "01F7801F79000018008001F7A01F7B000018007001F7C01F7D000018007E01FB001FB10000180008" \o
        "01FBE01FBE000017E3DB01FD001FD1000018000801FE001FE1000018000801FE501FE50000180007" \o
        "0214E0214E000017FFE4021700217F000017FFF00218402184000017FFFF024D0024E9000017FFE6" \o
        "02C3002C5F000017FFD002C6102C61000017FFFF02C6502C65000017D5D502C6602C66000017D5D8" \o
        "02C6802C6C000027FFFF02C7302C73000017FFFF02C7602C76000017FFFF02C8102CE3000027FFFF" \o
        "02CEC02CEE000027FFFF02CF302CF3000017FFFF02D0002D25000017E3A002D2702D27000017E3A0" \o
        "02D2D02D2D000017E3A00A6410A66D000027FFFF0A6810A69B000027FFFF0A7230A72F000027FFFF" \o
        "0A7330A76F000027FFFF0A77A0A77C000027FFFF0A77F0A787000027FFFF0A78C0A78C000017FFFF" \o
        "0A7910A793000027FFFF0A7940A79400001800300A7970A7A9000027FFFF0A7B50A7C3000027FFFF" \o
        "0A7C80A7CA000027FFFF0A7CD0A7DB000027FFFF0A7F60A7F6000017FFFF0AB530AB53000017FC60" \o
        "0AB700ABBF00001768300FF410FF5A000017FFE0104281044F000017FFD8104D8104FB000017FFD8" \o
        "10597105A1000017FFD9105A3105B1000017FFD9105B3105B9000017FFD9105BB105BC000017FFD9" \o
        "10CC010CF2000017FFC010D7010D85000017FFE0118C0118DF000017FFE016E6016E7F000017FFE0" \o
        "16EBB16ED3000017FFE51E9221E943000017FFDE"),
       upper_many |-> ManyMappings(
        "000DF000020005300053000000014900002002BC0004E00000001F0000020004A0030C0000000390" \o
        "00003003990030800301003B000003003A50030800301005870000200535005520000001E9600002" \o
        "00048003310000001E970000200054003080000001E9800002000570030A0000001E990000200059" \o
        "0030A0000001E9A0000200041002BE0000001F5000002003A5003130000001F5200003003A500313" \o
        "0030001F5400003003A5003130030101F5600003003A5003130034201F800000201F080039900000" \o
        "01F810000201F09003990000001F820000201F0A003990000001F830000201F0B003990000001F84" \o
        "0000201F0C003990000001F850000201F0D003990000001F860000201F0E003990000001F8700002" \o
        "01F0F003990000001F880000201F08003990000001F890000201F09003990000001F8A0000201F0A" \o
        "003990000001F8B0000201F0B003990000001F8C0000201F0C003990000001F8D0000201F0D00399" \o
        "0000001F8E0000201F0E003990000001F8F0000201F0F003990000001F900000201F280039900000" \o
        "01F910000201F29003990000001F920000201F2A003990000001F930000201F2B003990000001F94" \o
        "0000201F2C003990000001F950000201F2D003990000001F960000201F2E003990000001F9700002" \o
        "01F2F003990000001F980000201F28003990000001F990000201F29003990000001F9A0000201F2A" \o
        "003990000001F9B0000201F2B003990000001F9C0000201F2C003990000001F9D0000201F2D00399" \o
        "0000001F9E0000201F2E003990000001F9F0000201F2F003990000001FA00000201F680039900000" \o
        "01FA10000201F69003990000001FA20000201F6A003990000001FA30000201F6B003990000001FA4" \o
        "0000201F6C003990000001FA50000201F6D003990000001FA60000201F6E003990000001FA700002" \o
        "01F6F003990000001FA80000201F68003990000001FA90000201F69003990000001FAA0000201F6A" \o
        "003990000001FAB0000201F6B003990000001FAC0000201F6C003990000001FAD0000201F6D00399" \o
        "0000001FAE0000201F6E003990000001FAF0000201F6F003990000001FB20000201FBA0039900000" \o
        "01FB30000200391003990000001FB40000200386003990000001FB60000200391003420000001FB7" \o
        "0000300391003420039901FBC0000200391003990000001FC20000201FCA003990000001FC300002" \o
        "00397003990000001FC40000200389003990000001FC60000200397003420000001FC70000300397" \o
        "003420039901FCC0000200397003990000001FD20000300399003080030001FD3000030039900308" \o
        "0030101FD60000200399003420000001FD70000300399003080034201FE200003003A50030800300" \o
        "01FE300003003A5003080030101FE400002003A1003130000001FE600002003A5003420000001FE7" \o
        "00003003A5003080034201FF20000201FFA003990000001FF300002003A9003990000001FF400002" \o
        "0038F003990000001FF600002003A9003420000001FF700003003A9003420039901FFC00002003A9" \o
        "00399000000FB00000020004600046000000FB01000020004600049000000FB0200002000460004C" \o
        "000000FB03000030004600046000490FB040000300046000460004C0FB0500002000530005400000" \o
        "0FB06000020005300054000000FB13000020054400546000000FB14000020054400535000000FB15" \o
        "00002005440053B000000FB16000020054E00546000000FB1700002005440053D00000"),
       lower |-> Mappings(
        "000410005A0000180020000C0000D60000180020000D8000DE0000180020001000012E0000280001" \o
        "00132001360000280001001390014700002800010014A0017600002800010017800178000017FF87" \o
        "001790017D0000280001001810018100001800D200182001840000280001001860018600001800CE" \o
        "00187001870000180001001890018A00001800CD0018B0018B00001800010018E0018E000018004F" \o
        "0018F0018F00001800CA001900019000001800CB00191001910000180001001930019300001800CD" \o
        "001940019400001800CF001960019600001800D3001970019700001800D100198001980000180001" \o
        "0019C0019C00001800D30019D0019D00001800D50019F0019F00001800D6001A0001A40000280001" \o
        "001A6001A600001800DA001A7001A70000180001001A9001A900001800DA001AC001AC0000180001" \o
        "001AE001AE00001800DA001AF001AF0000180001001B1001B200001800D9001B3001B50000280001" \o
        "001B7001B700001800DB001B8001B80000180001001BC001BC0000180001001C4001C40000180002" \o
        "001C5001C50000180001001C7001C70000180002001C8001C80000180001001CA001CA0000180002" \o
        "001CB001DB0000280001001DE001EE0000280001001F1001F10000180002001F2001F40000280001" \o
        "001F6001F6000017FF9F001F7001F7000017FFC8001F80021E00002800010022000220000017FF7E" \o
        "002220023200002800010023A0023A0000182A2B0023B0023B00001800010023D0023D000017FF5D" \o
        "0023E0023E0000182A28002410024100001800010024300243000017FF3D00244002440000180045" \o
        "00245002450000180047002460024E00002800010037000372000028000100376003760000180001" \o
        "0037F0037F000018007400386003860000180026003880038A00001800250038C0038C0000180040" \o
        "0038E0038F000018003F00391003A10000180020003A3003AB0000180020003CF003CF0000180008" \o
        "003D8003EE0000280001003F4003F4000017FFC4003F7003F70000180001003F9003F9000017FFF9" \o
        "003FA003FA0000180001003FD003FF000017FF7E004000040F0000180050004100042F0000180020" \o
        "004600048000002800010048A004BE0000280001004C0004C0000018000F004C1004CD0000280001" \o
        "004D00052E000028000100531005560000180030010A0010C50000181C60010C7010C70000181C60" \o
        "010CD010CD0000181C60013A0013EF00001897D0013F0013F5000018000801C8901C890000180001" \o
        "01C9001CBA000017F44001CBD01CBF000017F44001E0001E94000028000101E9E01E9E000017E241" \o
        "01EA001EFE000028000101F0801F0F000017FFF801F1801F1D000017FFF801F2801F2F000017FFF8" \o
        "01F3801F3F000017FFF801F4801F4D000017FFF801F5901F5F000027FFF801F6801F6F000017FFF8" \o
        "01F8801F8F000017FFF801F9801F9F000017FFF801FA801FAF000017FFF801FB801FB9000017FFF8" \o
        "01FBA01FBB000017FFB601FBC01FBC000017FFF701FC801FCB000017FFAA01FCC01FCC000017FFF7" \o
        "01FD801FD9000017FFF801FDA01FDB000017FF9C01FE801FE9000017FFF801FEA01FEB000017FF90" \o
        "01FEC01FEC000017FFF901FF801FF9000017FF8001FFA01FFB000017FF8201FFC01FFC000017FFF7" \o
        "0212602126000017E2A30212A0212A000017DF410212B0212B000017DFBA0213202132000018001C" \o
        "021600216F000018001002183021830000180001024B6024CF000018001A02C0002C2F0000180030" \o
        "02C6002C60000018000102C6202C62000017D60902C6302C63000017F11A02C6402C64000017D619" \o
        "02C6702C6B000028000102C6D02C6D000017D5E402C6E02C6E000017D60302C6F02C6F000017D5E1" \o
        "02C7002C70000017D5E202C7202C72000018000102C7502C75000018000102C7E02C7F000017D5C1" \o
        "02C8002CE2000028000102CEB02CED000028000102CF202CF200001800010A6400A66C0000280001" \o
        "0A6800A69A00002800010A7220A72E00002800010A7320A76E00002800010A7790A77B0000280001" \o
        "0A77D0A77D00001775FC0A77E0A78600002800010A78B0A78B00001800010A78D0A78D0000175AD8" \o
        "0A7900A79200002800010A7960A7A800002800010A7AA0A7AA0000175ABC0A7AB0A7AB0000175AB1" \o
        "0A7AC0A7AC0000175AB50A7AD0A7AD0000175ABF0A7AE0A7AE0000175ABC0A7B00A7B00000175AEE" \o
        "0A7B10A7B10000175AD60A7B20A7B20000175AEB0A7B30A7B300001803A00A7B40A7C20000280001" \o
        "0A7C40A7C4000017FFD00A7C50A7C50000175ABD0A7C60A7C600001775C80A7C70A7C90000280001" \o
        "0A7CB0A7CB0000175A990A7CC0A7DA00002800010A7DC0A7DC00001759BF0A7F50A7F50000180001" \o
        "0FF210FF3A000018002010400104270000180028104B0104D30000180028105701057A0000180027" \o
        "1057C1058A00001800271058C1059200001800271059410595000018002710C8010CB20000180040" \o
        "10D5010D650000180020118A0118BF000018002016E4016E5F000018002016EA016EB8000018001B" \o
        "1E9001E9210000180022"),
       lower_many |-> ManyMappings(
        "0013000002000690030700000"),
       cased |-> Ranges(
        "000410005A000610007A000AA000AA000B5000B5000BA000BA000C0000D6000D8000F6000F8001BA" \o
        "001BC001BF001C40029300296002B8002C0002C1002E0002E4003450034500370003730037600377" \o
        "0037A0037D0037F0037F0038600386003880038A0038C0038C0038E003A1003A3003F5003F700481" \o
        "0048A0052F00531005560056000588010A0010C5010C7010C7010CD010CD010D0010FA010FC010FF" \o
        "013A0013F5013F8013FD01C8001C8A01C9001CBA01CBD01CBF01D0001DBF01E0001F1501F1801F1D" \o
        "01F2001F4501F4801F4D01F5001F5701F5901F5901F5B01F5B01F5D01F5D01F5F01F7D01F8001FB4" \o
        "01FB601FBC01FBE01FBE01FC201FC401FC601FCC01FD001FD301FD601FDB01FE001FEC01FF201FF4" \o
        "01FF601FFC02071020710207F0207F020900209C021020210202107021070210A021130211502115" \o
        "021190211D0212402124021260212602128021280212A0212D0212F0213402139021390213C0213F" \o
        "02145021490214E0214E021600217F0218302184024B6024E902C0002CE402CEB02CEE02CF202CF3" \o
        "02D0002D2502D2702D2702D2D02D2D0A6400A66D0A6800A69D0A7220A7870A78B0A78E0A7900A7DC" \o
        "0A7F10A7F60A7F80A7FA0AB300AB5A0AB5C0AB690AB700ABBF0FB000FB060FB130FB170FF210FF3A" \o
        "0FF410FF5A104001044F104B0104D3104D8104FB105701057A1057C1058A1058C105921059410595" \o
        "10597105A1105A3105B1105B3105B9105BB105BC1078010780107831078510787107B0107B2107BA" \o
        "10C8010CB210CC010CF210D5010D6510D7010D85118A0118DF16E4016E7F16EA016EB816EBB16ED3" \o
        "1D4001D4541D4561D49C1D49E1D49F1D4A21D4A21D4A51D4A61D4A91D4AC1D4AE1D4B91D4BB1D4BB" \o
        "1D4BD1D4C31D4C51D5051D5071D50A1D50D1D5141D5161D51C1D51E1D5391D53B1D53E1D5401D544" \o
        "1D5461D5461D54A1D5501D5521D6A51D6A81D6C01D6C21D6DA1D6DC1D6FA1D6FC1D7141D7161D734" \o
        "1D7361D74E1D7501D76E1D7701D7881D78A1D7A81D7AA1D7C21D7C41D7CB1DF001DF091DF0B1DF1E" \o
        "1DF251DF2A1E0301E06D1E9001E9431F1301F1491F1501F1691F1701F189"),
       case_ignorable |-> Ranges(
        "00027000270002E0002E0003A0003A0005E0005E0006000060000A8000A8000AD000AD000AF000AF" \o
        "000B4000B4000B7000B8002B00036F00374003750037A0037A003840038500387003870048300489" \o
        "00559005590055F0055F00591005BD005BF005BF005C1005C2005C4005C5005C7005C7005F4005F4" \o
        "0060000605006100061A0061C0061C00640006400064B0065F0067000670006D6006DD006DF006E8" \o
        "006EA006ED0070F0070F0071100711007300074A007A6007B0007EB007F5007FA007FA007FD007FD" \o
        "008160082D008590085B00888008880089000891008970089F008C9009020093A0093A0093C0093C" \o
        "00941009480094D0094D0095100957009620096300971009710098100981009BC009BC009C1009C4" \o
        "009CD009CD009E2009E3009FE009FE00A0100A0200A3C00A3C00A4100A4200A4700A4800A4B00A4D" \o
        "00A5100A5100A7000A7100A7500A7500A8100A8200ABC00ABC00AC100AC500AC700AC800ACD00ACD" \o
        "00AE200AE300AFA00AFF00B0100B0100B3C00B3C00B3F00B3F00B4100B4400B4D00B4D00B5500B56" \o
        "00B6200B6300B8200B8200BC000BC000BCD00BCD00C0000C0000C0400C0400C3C00C3C00C3E00C40" \o
        "00C4600C4800C4A00C4D00C5500C5600C6200C6300C8100C8100CBC00CBC00CBF00CBF00CC600CC6" \o
        "00CCC00CCD00CE200CE300D0000D0100D3B00D3C00D4100D4400D4D00D4D00D6200D6300D8100D81" \o
        "00DCA00DCA00DD200DD400DD600DD600E3100E3100E3400E3A00E4600E4E00EB100EB100EB400EBC" \o
        "00EC600EC600EC800ECE00F1800F1900F3500F3500F3700F3700F3900F3900F7100F7E00F8000F84" \o
        "00F8600F8700F8D00F9700F9900FBC00FC600FC60102D010300103201037010390103A0103D0103E" \o
        "01058010590105E010600107101074010820108201085010860108D0108D0109D0109D010FC010FC" \o
        "0135D0135F0171201714017320173301752017530177201773017B4017B5017B7017BD017C6017C6" \o
        "017C9017D3017D7017D7017DD017DD0180B0180F01843018430188501886018A9018A90192001922" \o
        "01927019280193201932019390193B01A1701A1801A1B01A1B01A5601A5601A5801A5E01A6001A60" \o
        "01A6201A6201A6501A6C01A7301A7C01A7F01A7F01AA701AA701AB001ADD01AE001AEB01B0001B03" \o
        "01B3401B3401B3601B3A01B3C01B3C01B4201B4201B6B01B7301B8001B8101BA201BA501BA801BA9" \o
        "01BAB01BAD01BE601BE601BE801BE901BED01BED01BEF01BF101C2C01C3301C3601C3701C7801C7D" \o
        "01CD001CD201CD401CE001CE201CE801CED01CED01CF401CF401CF801CF901D2C01D6A01D7801D78" \o
        "01D9B01DFF01FBD01FBD01FBF01FC101FCD01FCF01FDD01FDF01FED01FEF01FFD01FFE0200B0200F" \o
        "0201802019020240202402027020270202A0202E0206002064020660206F02071020710207F0207F" \o
        "020900209C020D0020F002C7C02C7D02CEF02CF102D6F02D6F02D7F02D7F02DE002DFF02E2F02E2F" \o
        "03005030050302A0302D03031030350303B0303B030990309E030FC030FE0A0150A0150A4F80A4FD" \o
        "0A60C0A60C0A66F0A6720A6740A67D0A67F0A67F0A69C0A69F0A6F00A6F10A7000A7210A7700A770" \o
        "0A7880A78A0A7F10A7F40A7F80A7F90A8020A8020A8060A8060A80B0A80B0A8250A8260A82C0A82C" \o
        "0A8C40A8C50A8E00A8F10A8FF0A8FF0A9260A92D0A9470A9510A9800A9820A9B30A9B30A9B60A9B9" \o
        "0A9BC0A9BD0A9CF0A9CF0A9E50A9E60AA290AA2E0AA310AA320AA350AA360AA430AA430AA4C0AA4C" \o
        "0AA700AA700AA7C0AA7C0AAB00AAB00AAB20AAB40AAB70AAB80AABE0AABF0AAC10AAC10AADD0AADD" \o
        "0AAEC0AAED0AAF30AAF40AAF60AAF60AB5B0AB5F0AB690AB6B0ABE50ABE50ABE80ABE80ABED0ABED" \o
        "0FB1E0FB1E0FBB20FBC20FE000FE0F0FE130FE130FE200FE2F0FE520FE520FE550FE550FEFF0FEFF" \o
        "0FF070FF070FF0E0FF0E0FF1A0FF1A0FF3E0FF3E0FF400FF400FF700FF700FF9E0FF9F0FFE30FFE3" \o
        "0FFF90FFFB101FD101FD102E0102E0103761037A107801078510787107B0107B2107BA10A0110A03" \o
        "10A0510A0610A0C10A0F10A3810A3A10A3F10A3F10AE510AE610D2410D2710D4E10D4E10D6910D6D" \o
        "10D6F10D6F10EAB10EAC10EC510EC510EFA10EFF10F4610F5010F8210F8511001110011103811046" \o
        "110701107011073110741107F11081110B3110B6110B9110BA110BD110BD110C2110C2110CD110CD" \o
        "1110011102111271112B1112D1113411173111731118011181111B6111BE111C9111CC111CF111CF" \o
        "1122F11231112341123411236112371123E1123E1124111241112DF112DF112E3112EA1130011301" \o
        "1133B1133C1134011340113661136C1137011374113BB113C0113CE113CE113D0113D0113D2113D2" \o
        "113E1113E2114381143F114421144411446114461145E1145E114B3114B8114BA114BA114BF114C0" \o
        "114C2114C3115B2115B5115BC115BD115BF115C0115DC115DD116331163A1163D1163D1163F11640" \o
        "116AB116AB116AD116AD116B0116B5116B7116B71171D1171D1171F1171F1172211725117271172B" \o
        "1182F11837118391183A1193B1193C1193E1193E1194311943119D4119D7119DA119DB119E0119E0" \o
        "11A0111A0A11A3311A3811A3B11A3E11A4711A4711A5111A5611A5911A5B11A8A11A9611A9811A99" \o
        "11B6011B6011B6211B6411B6611B6611C3011C3611C3811C3D11C3F11C3F11C9211CA711CAA11CB0" \o
        "11CB211CB311CB511CB611D3111D3611D3A11D3A11D3C11D3D11D3F11D4511D4711D4711D9011D91" \o
        "11D9511D9511D9711D9711DD911DD911EF311EF411F0011F0111F3611F3A11F4011F4011F4211F42" \o
        "11F5A11F5A134301344013447134551611E161291612D1612F16AF016AF416B3016B3616B4016B43" \o
        "16D4016D4216D6B16D6C16F4F16F4F16F8F16F9F16FE016FE116FE316FE416FF216FF31AFF01AFF3" \o
        "1AFF51AFFB1AFFD1AFFE1BC9D1BC9E1BCA01BCA31CF001CF2D1CF301CF461D1671D1691D1731D182" \o
        "1D1851D18B1D1AA1D1AD1D2421D2441DA001DA361DA3B1DA6C1DA751DA751DA841DA841DA9B1DA9F" \o
        "1DAA11DAAF1E0001E0061E0081E0181E01B1E0211E0231E0241E0261E02A1E0301E06D1E08F1E08F" \o
        "1E1301E13D1E2AE1E2AE1E2EC1E2EF1E4EB1E4EF1E5EE1E5EF1E6E31E6E31E6E61E6E61E6EE1E6EF" \o
        "1E6F51E6F51E6FF1E6FF1E8D01E8D61E9441E94B1F3FB1F3FFE0001E0001E0020E007FE0100E01EF") ]

\* core::unicode::conversions::to_upper: the code points c maps to
conversions_to_upper(cp) ==
  LET mapped(many, single) ==
        IF many # {} THEN (CHOOSE m \in many : TRUE)[2]
        ELSE IF single # {} THEN <<cp + (CHOOSE r \in single : TRUE)[4]>>
        ELSE <<cp>>
      table(data) ==
        mapped({m \in data.upper_many : m[1] = cp},
               {r \in data.upper : cp >= r[1] /\ cp <= r[2] /\ (cp - r[1]) % r[3] = 0})
  IN IF cp < 128 THEN <<IF cp >= 97 /\ cp <= 122 THEN cp - 32 ELSE cp>>
     ELSE table(UnicodeData)

\* core::unicode::conversions::to_lower: the code points c maps to
conversions_to_lower(cp) ==
  LET mapped(many, single) ==
        IF many # {} THEN (CHOOSE m \in many : TRUE)[2]
        ELSE IF single # {} THEN <<cp + (CHOOSE r \in single : TRUE)[4]>>
        ELSE <<cp>>
      table(data) ==
        mapped({m \in data.lower_many : m[1] = cp},
               {r \in data.lower : cp >= r[1] /\ cp <= r[2] /\ (cp - r[1]) % r[3] = 0})
  IN IF cp < 128 THEN <<IF cp >= 65 /\ cp <= 90 THEN cp + 32 ELSE cp>>
     ELSE table(UnicodeData)

\* str::to_uppercase
to_uppercase(s) ==
  LET chars(to) == [k \in 1..Len(to) |-> char_from_u32(to[k])]
  IN Concat([i \in 1..Len(s) |-> chars(conversions_to_upper(code_point(s[i])))])

\* map_uppercase_sigma of str::to_lowercase: the capital sigma at place i of
\* s maps to the final sigma when a cased character comes before it, and
\* none after it, case-ignorable characters skipped
map_uppercase_sigma(s, i) ==
  LET In(cp, ranges) == \E r \in ranges : cp >= r[1] /\ cp <= r[2]
      next_is_cased(found, cased) ==
        found # {} /\ In(code_point(s[CHOOSE k \in found :
                                        \A j \in found : (j - i) * (j - i) >= (k - i) * (k - i)]),
                         cased)
      is_word_final(data) ==
        /\ next_is_cased({k \in 1..(i - 1) : ~In(code_point(s[k]), data.case_ignorable)},
                         data.cased)
        /\ ~next_is_cased({k \in (i + 1)..Len(s) : ~In(code_point(s[k]), data.case_ignorable)},
                          data.cased)
  IN IF is_word_final(UnicodeData) THEN "U+03C2" ELSE "U+03C3"

\* str::to_lowercase
to_lowercase(s) ==
  LET chars(to) == [k \in 1..Len(to) |-> char_from_u32(to[k])]
  IN Concat([i \in 1..Len(s) |->
       IF s[i] = "U+03A3" THEN <<map_uppercase_sigma(s, i)>>
       ELSE chars(conversions_to_lower(code_point(s[i])))])

(***************************************************************************)
(* Decimal text of integers (Display / FromStr of u64 and i64).            *)
(***************************************************************************)
Digits == <<"0", "1", "2", "3", "4", "5", "6", "7", "8", "9">>
IsDigit(c) == \E i \in 1..10 : Digits[i] = c
DigitVal(c) == (CHOOSE i \in 1..10 : Digits[i] = c) - 1

RECURSIVE UnsignedToString(_)
UnsignedToString(n) ==
  IF n < 10 THEN <<Digits[n + 1]>>
  ELSE Append(UnsignedToString(n \div 10), Digits[(n % 10) + 1])

\* u64 / i64 to_string
to_string(n) == IF n < 0 THEN <<"-">> \o UnsignedToString(0 - n) ELSE UnsignedToString(n)

RECURSIVE DigitsValue(_, _)
DigitsValue(s, acc) ==
  IF s = <<>> THEN acc ELSE DigitsValue(Tail(s), acc * 10 + DigitVal(Head(s)))

AllDigits(s) == \A i \in 1..Len(s) : IsDigit(s[i])

\* str::parse::<u64>: optional '+', then one or more digits
ParseU64(s) ==
  LET body == IF s # <<>> /\ Head(s) = "+" THEN Tail(s) ELSE s
  IN IF body # <<>> /\ AllDigits(body)
       THEN [ok |-> TRUE, val |-> DigitsValue(body, 0)]
       ELSE [ok |-> FALSE, val |-> 0]

\* str::parse::<i64>: optional '+' or '-', then one or more digits
ParseI64(s) ==
  LET signed == s # <<>> /\ Head(s) \in {"+", "-"}
      body == IF signed THEN Tail(s) ELSE s
  IN IF body # <<>> /\ AllDigits(body)
       THEN [ok |-> TRUE,
             val |-> IF signed /\ Head(s) = "-" THEN 0 - DigitsValue(body, 0)
                     ELSE DigitsValue(body, 0)]
       ELSE [ok |-> FALSE, val |-> 0]

(***************************************************************************)
(* Big-endian fixed-width integers.                                        *)
(***************************************************************************)
RECURSIVE to_be_bytes(_, _)
\* n.to_be_bytes() for a type of w bytes (two's complement for negative n)
to_be_bytes(n, w) ==
  IF w = 0 THEN <<>> ELSE Append(to_be_bytes(n \div 256, w - 1), n % 256)

RECURSIVE UnsignedFromBe(_, _)
UnsignedFromBe(bytes, acc) ==
  IF bytes = <<>> THEN acc ELSE UnsignedFromBe(Tail(bytes), acc * 256 + Head(bytes))

\* u64 / u32 / u8 ::from_be_bytes
from_be_bytes(bytes) == UnsignedFromBe(bytes, 0)

\* i64::from_be_bytes
from_be_bytes_signed(bytes) ==
  IF bytes[1] >= 128
    THEN 0 - UnsignedFromBe([i \in 1..Len(bytes) |-> 255 - bytes[i]], 0) - 1
    ELSE UnsignedFromBe(bytes, 0)

(***************************************************************************)
(* Lengths beyond the range of TLC integers: a usize or u32 as two digits  *)
(* of base 2^16, hi * 2^16 + lo.                                           *)
(***************************************************************************)
\* the usize n
Wide(n) == [hi |-> n \div 65536, lo |-> n % 65536]

\* a + b of two usize
WideAdd(a, b) ==
  [hi |-> a.hi + b.hi + ((a.lo + b.lo) \div 65536), lo |-> (a.lo + b.lo) % 65536]

\* a <= b of two usize
WideLeq(a, b) == a.hi < b.hi \/ (a.hi = b.hi /\ a.lo <= b.lo)

\* n as u32: the low 32 bits of a usize
as_u32(n) == [hi |-> n.hi % 65536, lo |-> n.lo]

(***************************************************************************)
(* Errors (enum ParseError) and results.                                   *)
(***************************************************************************)
\* ParseError: kind is the variant, msg its String payload as the
\* characters of the text (two errors are equal when derive(PartialEq)
\* finds them equal), tt the TransactionType payload of InvalidUserId ("" for
\* the other variants)
ParseError(kind, msg, tt) == [kind |-> kind, msg |-> msg, tt |-> tt]

NoError == ParseError("none", <<>>, "")

\* io::Error of read_exact on a short source, converted by From<io::Error>
IOErrorEof == ParseError("IOError",
    <<"f", "a", "i", "l", "e", "d", " ", "t", "o", " ", "f", "i", "l", "l", " ", "w", "h",
      "o", "l", "e", " ", "b", "u", "f", "f", "e", "r">>, "")

Ok(v) == [ok |-> TRUE, val |-> v, err |-> NoError]
Err(e) == [ok |-> FALSE, val |-> 0, err |-> e]

(***************************************************************************)
(* Domain values: TransactionType, TransactionStatus, YPBankRecord.        *)
(***************************************************************************)
DEPOSIT == <<"D", "E", "P", "O", "S", "I", "T">>
TRANSFER == <<"T", "R", "A", "N", "S", "F", "E", "R">>
WITHDRAWAL == <<"W", "I", "T", "H", "D", "R", "A", "W", "A", "L">>
SUCCESS == <<"S", "U", "C", "C", "E", "S", "S">>
FAILURE == <<"F", "A", "I", "L", "U", "R", "E">>
PENDING == <<"P", "E", "N", "D", "I", "N", "G">>

TransactionType == {"Deposit", "Transfer", "Withdrawal"}
TransactionStatus == {"Success", "Failure", "Pending"}

\* TransactionType::as_str
type_as_str(t) ==
  IF t = "Deposit" THEN DEPOSIT ELSE IF t = "Transfer" THEN TRANSFER ELSE WITHDRAWAL

\* TransactionType::as_int
type_as_int(t) == IF t = "Deposit" THEN 0 ELSE IF t = "Transfer" THEN 1 ELSE 2

\* TransactionType::from_int
type_from_int(val) ==
  IF val = 0 THEN Ok("Deposit")
  ELSE IF val = 1 THEN Ok("Transfer")
  ELSE IF val = 2 THEN Ok("Withdrawal")
  ELSE Err(ParseError("InvalidTransactionTypeValue", to_string(val), ""))

\* <TransactionType as FromStr>::from_str
type_from_str(s) ==
  LET match(u) ==
        IF u = DEPOSIT THEN Ok("Deposit")
        ELSE IF u = TRANSFER THEN Ok("Transfer")
        ELSE IF u = WITHDRAWAL THEN Ok("Withdrawal")
        ELSE Err(ParseError("InvalidTransactionTypeValue", s, ""))
  IN match(to_uppercase(s))

\* TransactionStatus::as_str
status_as_str(t) ==
  IF t = "Success" THEN SUCCESS ELSE IF t = "Failure" THEN FAILURE ELSE PENDING

\* TransactionStatus::as_int
status_as_int(t) == IF t = "Success" THEN 0 ELSE IF t = "Failure" THEN 1 ELSE 2

\* TransactionStatus::from_int
status_from_int(val) ==
  IF val = 0 THEN Ok("Success")
  ELSE IF val = 1 THEN Ok("Failure")
  ELSE IF val = 2 THEN Ok("Pending")
  ELSE Err(ParseError("InvalidStatusValue", to_string(val), ""))

\* <TransactionStatus as FromStr>::from_str
status_from_str(s) ==
  LET match(u) ==
        IF u = SUCCESS THEN Ok("Success")
        ELSE IF u = FAILURE THEN Ok("Failure")
        ELSE IF u = PENDING THEN Ok("Pending")
        ELSE Err(ParseError("InvalidStatusValue", s, ""))
  IN match(to_uppercase(s))

\* parse_value_from_string::<u64>
parse_u64_from_string(s) ==
  IF ParseU64(s).ok THEN Ok(ParseU64(s).val)
  ELSE Err(ParseError("InvalidRawValue", s, ""))

\* parse_value_from_string::<i64>
parse_i64_from_string(s) ==
  IF ParseI64(s).ok THEN Ok(ParseI64(s).val)
  ELSE Err(ParseError("InvalidRawValue", s, ""))

\* parse_value_from_string::<TransactionType>: the error of from_str is
\* replaced by InvalidRawValue
parse_type_from_string(s) ==
  LET map_err(parsed) == IF parsed.ok THEN parsed ELSE Err(ParseError("InvalidRawValue", s, ""))
  IN map_err(type_from_str(s))

\* parse_value_from_string::<TransactionStatus>: the error of from_str is
\* replaced by InvalidRawValue
parse_status_from_string(s) ==
  LET map_err(parsed) == IF parsed.ok THEN parsed ELSE Err(ParseError("InvalidRawValue", s, ""))
  IN map_err(status_from_str(s))

validate_from_user_id(val, transaction_type) ==
  IF val = 0 /\ transaction_type # "Deposit"
    THEN Err(ParseError("InvalidUserId", to_string(val), transaction_type))
    ELSE Ok(val)

\* validate_to_user_id without the zero check
validate_to_user_id_unchecked(val, transaction_type) == Ok(val)

validate_to_user_id(val, transaction_type) ==
  IF val = 0 /\ transaction_type # "Withdrawal"
    THEN Err(ParseError("InvalidUserId", to_string(val), transaction_type))
    ELSE Ok(val)

parse_from_user_id(s, transaction_type) ==
  IF ParseU64(s).ok THEN validate_from_user_id(ParseU64(s).val, transaction_type)
  ELSE Err(ParseError("InvalidRawValue", s, ""))

parse_to_user_id(s, transaction_type) ==
  IF ParseU64(s).ok THEN validate_to_user_id(ParseU64(s).val, transaction_type)
  ELSE Err(ParseError("InvalidRawValue", s, ""))

\* YPBankRecord::new
YPBankRecord(id, transaction_type, from_user_id, to_user_id, amount, ts, status, description) ==
  [id |-> id, transaction_type |-> transaction_type, from_user_id |-> from_user_id,
   to_user_id |-> to_user_id, amount |-> amount, ts |-> ts, status |-> status,
   description |-> description]

\* placeholder in results that carry no record
NoRecord == YPBankRecord(0, "", 0, 0, 0, 0, "", <<>>)

\* result of YPBankRecordParser::from_read: Ok(Some(rec)), Ok(None) or Err(e),
\* with the position of the reader after the call
Some(rec, p) == [tag |-> "some", rec |-> rec, err |-> NoError, pos |-> p]
None(p) == [tag |-> "none", rec |-> NoRecord, err |-> NoError, pos |-> p]
Fail(e, p) == [tag |-> "err", rec |-> NoRecord, err |-> e, pos |-> p]

(***************************************************************************)
(* BufRead primitives on a source `src` of which `p` elements are          *)
(* already consumed.                                                       *)
(***************************************************************************)
\* core::str::from_utf8, the sequence that starts at index i (from 0):
\* Utf8Error::error_len() as 1..3, 0 for None (the input ends inside the
\* sequence), and -1 when the sequence is well formed
utf8_error_len(bytes, i) ==
  LET n == Len(bytes)
      first == bytes[i + 1]
      cont(b) == b >= 128 /\ b <= 191
      second(b) ==
        IF first = 224 THEN b >= 160 /\ b <= 191
        ELSE IF first = 237 THEN b >= 128 /\ b <= 159
        ELSE IF first = 240 THEN b >= 144 /\ b <= 191
        ELSE IF first = 244 THEN b >= 128 /\ b <= 143
        ELSE cont(b)
  IN IF first < 128 THEN 0 - 1
     ELSE IF first < 194 \/ first > 244 THEN 1
     ELSE IF i + 1 >= n THEN 0
     ELSE IF ~second(bytes[i + 2]) THEN 1
     ELSE IF first < 224 THEN 0 - 1
     ELSE IF i + 2 >= n THEN 0
     ELSE IF ~cont(bytes[i + 3]) THEN 2
     ELSE IF first < 240 THEN 0 - 1
     ELSE IF i + 3 >= n THEN 0
     ELSE IF ~cont(bytes[i + 4]) THEN 3
     ELSE 0 - 1

\* the characters of the bytes, or the Display text of the Utf8Error of
\* the first sequence that is not well formed.  The sequences start at
\* index 0 and at every byte that is no continuation byte (0x80..0xBF); the
\* first of them that is not one well-formed sequence holds the error: at
\* its start, or at the continuation byte that follows a well-formed one
utf8_decode(bytes) ==
  LET n == Len(bytes)
      starts == {0} \cup {i \in 0..(n - 1) : bytes[i + 1] < 128 \/ bytes[i + 1] > 191}
      width(i) == IF bytes[i + 1] < 128 THEN 1 ELSE IF bytes[i + 1] < 224 THEN 2
                  ELSE IF bytes[i + 1] < 240 THEN 3 ELSE 4
      low(i, k) == bytes[i + k] % 64
      cp(i) == IF width(i) = 1 THEN bytes[i + 1]
               ELSE IF width(i) = 2 THEN (bytes[i + 1] % 32) * 64 + low(i, 2)
               ELSE IF width(i) = 3
                 THEN (bytes[i + 1] % 16) * 4096 + low(i, 2) * 64 + low(i, 3)
               ELSE (bytes[i + 1] % 8) * 262144 + low(i, 2) * 4096 + low(i, 3) * 64 + low(i, 4)
      followed(i) == i + width(i) < n /\ (i + width(i)) \notin starts
      bad == {i \in starts : utf8_error_len(bytes, i) # 0 - 1 \/ followed(i)}
      first == CHOOSE i \in bad : \A j \in bad : i <= j
      error_len == utf8_error_len(bytes, first)
      invalid(len, at) ==
        Err(ParseError("InvalidRawValue",
              <<"i", "n", "v", "a", "l", "i", "d", " ", "u", "t", "f", "-", "8", " ", "s",
                "e", "q", "u", "e", "n", "c", "e", " ", "o", "f", " ">> \o
              UnsignedToString(len) \o
              <<" ", "b", "y", "t", "e", "s", " ", "f", "r", "o", "m", " ", "i", "n", "d",
                "e", "x", " ">> \o UnsignedToString(at), ""))
  IN IF n = 0 THEN Ok(<<>>)
     ELSE IF bad = {}
       THEN Ok(Concat([p \in 1..n |->
                         IF (p - 1) \in starts THEN <<char_from_u32(cp(p - 1))>> ELSE <<>>]))
     ELSE IF error_len = 0
       THEN Err(ParseError("InvalidRawValue",
              <<"i", "n", "c", "o", "m", "p", "l", "e", "t", "e", " ", "u", "t", "f", "-",
                "8", " ", "b", "y", "t", "e", " ", "s", "e", "q", "u", "e", "n", "c", "e",
                " ", "f", "r", "o", "m", " ", "i", "n", "d", "e", "x", " ">> \o
              UnsignedToString(first), ""))
     ELSE IF error_len > 0 THEN invalid(error_len, first)
     ELSE invalid(1, first + width(first))

\* String::from_utf8(desc_bytes).map_err(|err| InvalidRawValue(err.to_string()))
from_utf8(bytes) ==
  IF \A i \in 1..Len(bytes) : bytes[i] < 128
    THEN Ok([i \in 1..Len(bytes) |-> CharTable[bytes[i]]])
    ELSE utf8_decode(bytes)

\* io::Error of read_line on bytes that are not UTF-8, converted by
\* From<io::Error>
IOErrorUtf8 == ParseError("IOError",
    <<"s", "t", "r", "e", "a", "m", " ", "d", "i", "d", " ", "n", "o", "t", " ", "c", "o",
      "n", "t", "a", "i", "n", " ", "v", "a", "l", "i", "d", " ", "U", "T", "F", "-", "8">>, "")

RECURSIVE LineEnd(_, _)
\* index of the last byte of the line that starts after p
LineEnd(src, p) ==
  IF p >= Len(src) THEN Len(src)
  ELSE IF src[p + 1] = 10 THEN p + 1
  ELSE LineEnd(src, p + 1)

\* BufRead::read_line into an empty String: the bytes up to and including
\* the newline are consumed (n of them, 0 at the end of the stream) and
\* are the line when they are UTF-8; ok = FALSE is the io::Error
read_line(src, p) ==
  LET append_to(text, line_end) ==
        [ok |-> text.ok, line |-> IF text.ok THEN text.val ELSE <<>>,
         n |-> line_end - p, pos |-> line_end]
      read_until(line_end) == append_to(from_utf8(SubSeq(src, p + 1, line_end)), line_end)
  IN read_until(LineEnd(src, p))

\* Read::read_exact of n bytes
read_exact(src, p, n) ==
  IF p + n > Len(src)
    THEN [ok |-> FALSE, bytes |-> <<>>, pos |-> Len(src)]
    ELSE [ok |-> TRUE, bytes |-> SubSeq(src, p + 1, p + n), pos |-> p + n]

(***************************************************************************)
(* Delimited-text codec (csv_format.rs).                                   *)
(***************************************************************************)
SEP == ","
QUOTE == "\""
TARGET_HEADER ==
  << "T", "X", "_", "I", "D", ",",
     "T", "X", "_", "T", "Y", "P", "E", ",",
     "F", "R", "O", "M", "_", "U", "S", "E", "R", "_", "I", "D", ",",
     "T", "O", "_", "U", "S", "E", "R", "_", "I", "D", ",",
     "A", "M", "O", "U", "N", "T", ",",
     "T", "I", "M", "E", "S", "T", "A", "M", "P", ",",
     "S", "T", "A", "T", "U", "S", ",",
     "D", "E", "S", "C", "R", "I", "P", "T", "I", "O", "N", "\n" >>

RECURSIVE SeparatorScan_ignores_quotes(_, _, _, _, _)
\* the for loop of next() without the test of is_inside_quotes
SeparatorScan_ignores_quotes(line, i, byte_pos, start, inside) ==
  IF i > Len(line)
    THEN [field |-> SubSeq(line, start + 1, Len(line)), index |-> byte_pos, inside |-> inside]
  ELSE IF line[i] = SEP
    THEN [field |-> SubSeq(line, start + 1, i - 1),
          index |-> byte_pos + Len(as_bytes(<<line[i]>>)), inside |-> inside]
  ELSE SeparatorScan_ignores_quotes(line, i + 1, byte_pos + Len(as_bytes(<<line[i]>>)), start,
                                    IF line[i] = QUOTE THEN ~inside ELSE inside)

RECURSIVE char_indices_skip(_, _, _, _)
\* line.char_indices().skip_while(|(i, _)| *i < start), from the k-th
\* character on, which is at byte_pos: the number of characters skipped
\* and the byte position of the first one that is not
char_indices_skip(line, k, byte_pos, start) ==
  IF k >= Len(line) \/ byte_pos >= start THEN [chars |-> k, byte_pos |-> byte_pos]
  ELSE char_indices_skip(line, k + 1, byte_pos + Len(as_bytes(<<line[k + 1]>>)), start)

RECURSIVE SeparatorScan(_, _, _, _, _)
\* the for loop of Separator::next: i is the character examined, byte_pos
\* its place in bytes, start the number of characters before the field,
\* inside the quote flag; index is self.index after the call, in bytes
SeparatorScan(line, i, byte_pos, start, inside) ==
  IF i > Len(line)
    THEN [field |-> SubSeq(line, start + 1, Len(line)), index |-> byte_pos, inside |-> inside]
  ELSE IF ~inside /\ line[i] = SEP
    THEN [field |-> SubSeq(line, start + 1, i - 1),
          index |-> byte_pos + Len(as_bytes(<<line[i]>>)), inside |-> inside]
  ELSE SeparatorScan(line, i + 1, byte_pos + Len(as_bytes(<<line[i]>>)), start,
                     IF line[i] = QUOTE THEN ~inside ELSE inside)

\* Separator::next on the iterator state (line, index, is_inside_quotes),
\* index in bytes as in the code; some = FALSE is None
SeparatorNext(line, index, is_inside_quotes) ==
  IF index >= Len(as_bytes(line))
    THEN [some |-> FALSE, field |-> <<>>, index |-> index, inside |-> is_inside_quotes]
    ELSE LET from == char_indices_skip(line, 0, 0, index)
             r == SeparatorScan(line, from.chars + 1, from.byte_pos, from.chars,
                                is_inside_quotes)
         IN [some |-> TRUE, field |-> r.field, index |-> r.index, inside |-> r.inside]

RECURSIVE SeparatorCollect(_, _, _)
\* the fields the iterator yields from state (index, inside) on
SeparatorCollect(line, index, inside) ==
  LET n == SeparatorNext(line, index, inside)
  IN IF n.some THEN <<n.field>> \o SeparatorCollect(line, n.index, n.inside) ELSE <<>>

\* Separator::new(line) consumed by a for loop / collect
Separator(line) == SeparatorCollect(line, 0, FALSE)

\* the field conversions shared by the two text codecs, in evaluation order
\* (csv_format.rs from_raw_values after the length check; txt_format.rs
\* from_raw_values after the field lookup)
RecordFromValues(v) ==
  LET new(tt, id, ty, fu, tu, am, ts, st) ==
        IF ~tt.ok THEN Err(tt.err)
        ELSE IF ~id.ok THEN Err(id.err)
        ELSE IF ~ty.ok THEN Err(ty.err)
        ELSE IF ~fu.ok THEN Err(fu.err)
        ELSE IF ~tu.ok THEN Err(tu.err)
        ELSE IF ~am.ok THEN Err(am.err)
        ELSE IF ~ts.ok THEN Err(ts.err)
        ELSE IF ~st.ok THEN Err(st.err)
        ELSE Ok(YPBankRecord(id.val, ty.val, fu.val, tu.val, am.val, ts.val, st.val, v[8]))
      convert(tt) ==
        new(tt,
            parse_u64_from_string(v[1]),
            parse_type_from_string(v[2]),
            parse_from_user_id(v[3], tt.val),
            parse_to_user_id(v[4], tt.val),
            parse_i64_from_string(v[5]),
            parse_u64_from_string(v[6]),
            parse_status_from_string(v[7]))
  IN convert(type_from_str(v[2]))

\* from_raw_values that converts the first eight fields before it counts
csv_from_raw_values_fields_first(raw_values) ==
  IF Len(raw_values) >= 8 /\ ~RecordFromValues(raw_values).ok
    THEN RecordFromValues(raw_values)
  ELSE IF Len(raw_values) # 8
    THEN Err(ParseError("InvalidRow",
                        <<"E", "x", "p", "e", "c", "t", "e", "d", " ", "8", " ", "f", "i",
                          "e", "l", "d", "s", ",", " ", "g", "o", "t", " ">> \o
                        to_string(Len(raw_values)), ""))
    ELSE RecordFromValues(raw_values)

\* YPBankCsvRecordParser::from_raw_values
csv_from_raw_values(raw_values) ==
  IF Len(raw_values) # 8
    THEN Err(ParseError("InvalidRow",
                        <<"E", "x", "p", "e", "c", "t", "e", "d", " ", "8", " ", "f", "i",
                          "e", "l", "d", "s", ",", " ", "g", "o", "t", " ">> \o
                        to_string(Len(raw_values)), ""))
    ELSE RecordFromValues(raw_values)

RECURSIVE csv_from_read_skips_blank(_, _)
\* from_read that goes on to the next line after a blank line
csv_from_read_skips_blank(src, p) ==
  LET rl == read_line(src, p)
      values == Separator(trim(rl.line))
      record == csv_from_raw_values(values)
  IN IF ~rl.ok THEN Fail(IOErrorUtf8, rl.pos)
     ELSE IF rl.n = 0 THEN None(rl.pos)
     ELSE IF trim(rl.line) = <<>> THEN csv_from_read_skips_blank(src, rl.pos)
     ELSE IF ~record.ok THEN Fail(record.err, rl.pos)
     ELSE Some(record.val, rl.pos)

\* <YPBankCsvRecordParser as YPBankRecordParser>::from_read
csv_from_read(src, p) ==
  LET from(rl, record) ==
        IF ~rl.ok THEN Fail(IOErrorUtf8, rl.pos)
        ELSE IF rl.n = 0 \/ trim(rl.line) = <<>> THEN None(rl.pos)
        ELSE IF ~record.ok THEN Fail(record.err, rl.pos)
        ELSE Some(record.val, rl.pos)
      line_read(rl) == from(rl, csv_from_raw_values(Separator(trim(rl.line))))
  IN line_read(read_line(src, p))

\* <YPBankCsvRecordParser as YPBankRecordParser>::write_to: the bytes written
csv_write_to(record) ==
  LET record_str ==
        to_string(record.id) \o <<SEP>> \o
        type_as_str(record.transaction_type) \o <<SEP>> \o
        to_string(record.from_user_id) \o <<SEP>> \o
        to_string(record.to_user_id) \o <<SEP>> \o
        to_string(record.amount) \o <<SEP>> \o
        to_string(record.ts) \o <<SEP>> \o
        status_as_str(record.status) \o <<SEP>> \o
        record.description \o <<"\n">>
  IN as_bytes(record_str)

\* CsvParser::pre_read
csv_pre_read(src, p) ==
  LET rl == read_line(src, p)
  IN IF ~rl.ok THEN Fail(IOErrorUtf8, rl.pos)
     ELSE IF rl.line # TARGET_HEADER
       THEN Fail(ParseError("InvalidCsvHeader", rl.line, ""), rl.pos)
       ELSE None(rl.pos)

\* CsvParser::pre_write: the bytes written
csv_pre_write == as_bytes(TARGET_HEADER)

(***************************************************************************)
(* Labeled-text codec (txt_format.rs).                                     *)
(***************************************************************************)
TXT_SEP == ":"
COMMENT_PREFIX == "#"
NEW_LINE == "\n"

FIELDS ==
  << <<"T", "X", "_", "I", "D">>,
     <<"T", "X", "_", "T", "Y", "P", "E">>,
     <<"F", "R", "O", "M", "_", "U", "S", "E", "R", "_", "I", "D">>,
     <<"T", "O", "_", "U", "S", "E", "R", "_", "I", "D">>,
     <<"A", "M", "O", "U", "N", "T">>,
     <<"T", "I", "M", "E", "S", "T", "A", "M", "P">>,
     <<"S", "T", "A", "T", "U", "S">>,
     <<"D", "E", "S", "C", "R", "I", "P", "T", "I", "O", "N">> >>

RECURSIVE Split(_, _, _)
\* str::split(sep): cur is the part being accumulated
Split(s, sep, cur) ==
  IF s = <<>> THEN <<cur>>
  ELSE IF Head(s) = sep THEN <<cur>> \o Split(Tail(s), sep, <<>>)
  ELSE Split(Tail(s), sep, Append(cur, Head(s)))

\* YPBankTxtRecordParser::parse_raw_line
parse_raw_line(line) ==
  LET parts == Split(line, TXT_SEP, <<>>)
  IN IF Len(parts) # 2 THEN Err(ParseError("InvalidRow", line, ""))
     ELSE Ok(<<trim(parts[1]), trim(parts[2])>>)

\* insert that files the value under the name of the next field in FIELDS
\* order, whatever the key of the line
MapInsert_by_position(m, k, v) ==
  [x \in (DOMAIN m) \cup {FIELDS[Cardinality(DOMAIN m) + 1]} |->
     IF x = FIELDS[Cardinality(DOMAIN m) + 1] THEN v ELSE m[x]]

\* HashMap::insert on a map held as a function from keys to values
MapInsert(m, k, v) == [x \in (DOMAIN m) \cup {k} |-> IF x = k THEN v ELSE m[x]]

EmptyMap == [x \in {} |-> <<>>]

RECURSIVE parse_raw_values_loop(_, _, _, _)
\* the while loop of YPBankTxtRecordParser::parse_raw_values; the result
\* holds the map in `rec` when tag is "some"
parse_raw_values_loop(src, p, raw_values, parsed_values) ==
  IF parsed_values >= 8 THEN [tag |-> "some", rec |-> raw_values, err |-> NoError, pos |-> p]
  ELSE
    LET step(rl, kv) ==
          IF ~rl.ok
            THEN [tag |-> "err", rec |-> EmptyMap, err |-> IOErrorUtf8, pos |-> rl.pos]
          ELSE IF rl.n = 0
            THEN IF parsed_values = 0
                   THEN [tag |-> "none", rec |-> EmptyMap, err |-> NoError, pos |-> rl.pos]
                   ELSE [tag |-> "err", rec |-> EmptyMap, pos |-> rl.pos,
                         err |-> ParseError("InconsistentRecord",
                                            <<"u", "n", "e", "x", "p", "e", "c", "t", "e",
                                              "d", " ", "e", "n", "d", " ", "o", "f", " ",
                                              "f", "i", "l", "e", " ", "w", "h", "i", "l",
                                              "e", " ", "p", "a", "r", "s", "i", "n", "g">>, "")]
          ELSE IF Head(rl.line) = COMMENT_PREFIX
            THEN parse_raw_values_loop(src, rl.pos, raw_values, parsed_values)
          ELSE IF rl.line = <<NEW_LINE>>
            THEN IF parsed_values = 0
                   THEN parse_raw_values_loop(src, rl.pos, raw_values, parsed_values)
                   ELSE [tag |-> "err", rec |-> EmptyMap, pos |-> rl.pos,
                         err |-> ParseError("InconsistentRecord",
                                            <<"u", "n", "e", "x", "p", "e", "c", "t", "e",
                                              "d", " ", "n", "e", "w", " ", "l", "i", "n",
                                              "e", " ", "w", "h", "i", "l", "e", " ", "p",
                                              "a", "r", "s", "i", "n", "g">>, "")]
          ELSE IF ~kv.ok
            THEN [tag |-> "err", rec |-> EmptyMap, err |-> kv.err, pos |-> rl.pos]
          ELSE parse_raw_values_loop(src, rl.pos,
                                     MapInsert(raw_values, kv.val[1], kv.val[2]),
                                     parsed_values + 1)
        line_read(rl) == step(rl, parse_raw_line(rl.line))
    IN line_read(read_line(src, p))

\* YPBankTxtRecordParser::parse_raw_values
parse_raw_values(src, p) == parse_raw_values_loop(src, p, EmptyMap, 0)

\* from_raw_values that takes a field that is not in the map as empty
txt_from_raw_values_or_default(values_map) ==
  RecordFromValues([i \in 1..8 |-> IF FIELDS[i] \in DOMAIN values_map
                                     THEN values_map[FIELDS[i]] ELSE <<>>])

\* YPBankTxtRecordParser::from_raw_values
txt_from_raw_values(values_map) ==
  LET missing == {i \in 1..8 : FIELDS[i] \notin DOMAIN values_map}
      first == CHOOSE i \in missing : \A j \in missing : i <= j
  IN IF missing # {}
       THEN Err(ParseError("FieldNotFound", FIELDS[first], ""))
       ELSE RecordFromValues([i \in 1..8 |-> values_map[FIELDS[i]]])

\* from_read that takes an unfinished record at the end of the stream, or
\* before an empty line, for the end of the records
txt_from_read_drops_partial(src, p) ==
  LET raw_values_opt == parse_raw_values(src, p)
      record == txt_from_raw_values(raw_values_opt.rec)
  IN IF raw_values_opt.tag = "err"
       THEN IF raw_values_opt.err.kind = "InconsistentRecord" THEN None(raw_values_opt.pos)
            ELSE Fail(raw_values_opt.err, raw_values_opt.pos)
     ELSE IF raw_values_opt.tag = "none" THEN None(raw_values_opt.pos)
     ELSE IF ~record.ok THEN Fail(record.err, raw_values_opt.pos)
     ELSE Some(record.val, raw_values_opt.pos)

\* <YPBankTxtRecordParser as YPBankRecordParser>::from_read
txt_from_read(src, p) ==
  LET from(raw_values_opt, record) ==
        IF raw_values_opt.tag = "err" THEN Fail(raw_values_opt.err, raw_values_opt.pos)
        ELSE IF raw_values_opt.tag = "none" THEN None(raw_values_opt.pos)
        ELSE IF ~record.ok THEN Fail(record.err, raw_values_opt.pos)
        ELSE Some(record.val, raw_values_opt.pos)
      parsed(raw_values_opt) == from(raw_values_opt, txt_from_raw_values(raw_values_opt.rec))
  IN parsed(parse_raw_values(src, p))

\* the record_values array of YPBankTxtRecordParser::write_to
txt_record_values(record) ==
  << to_string(record.id),
     type_as_str(record.transaction_type),
     to_string(record.from_user_id),
     to_string(record.to_user_id),
     to_string(record.amount),
     to_string(record.ts),
     status_as_str(record.status),
     record.description >>

RECURSIVE Join(_, _)
\* [String]::join(sep)
Join(ss, sep) ==
  IF ss = <<>> THEN <<>>
  ELSE IF Len(ss) = 1 THEN ss[1]
  ELSE ss[1] \o sep \o Join(Tail(ss), sep)

\* write_to that ends every line with a newline and adds no empty line
txt_write_to_no_empty_line(record) ==
  LET record_values == txt_record_values(record)
  IN as_bytes(Concat([i \in 1..8 |->
                FIELDS[i] \o <<":", " ">> \o record_values[i] \o <<NEW_LINE>>]))

\* <YPBankTxtRecordParser as YPBankRecordParser>::write_to: the bytes written
txt_write_to(record) ==
  LET record_values == txt_record_values(record)
      raw_values == [i \in 1..9 |-> IF i <= 8 THEN FIELDS[i] \o <<":", " ">> \o record_values[i]
                                    ELSE <<NEW_LINE>>]
      result == Join(raw_values, <<NEW_LINE>>)
  IN as_bytes(result)

(***************************************************************************)
(* Binary codec (bin_format.rs).                                           *)
(***************************************************************************)
MAGIC == <<89, 80, 66, 78>>

\* format!("{:02x}", b)
Hex02_lower_case(b) ==
  to_lowercase(<<HexDigits[(b \div 16) + 1], HexDigits[(b % 16) + 1]>>)

\* format!("{:02X}", b)
Hex02(b) == <<HexDigits[(b \div 16) + 1], HexDigits[(b % 16) + 1]>>

\* read_u64_from_bytes, read_u32_from_bytes, read_u8_from_bytes (size bytes)
read_unsigned_from_bytes(src, p, size) ==
  LET r == read_exact(src, p, size)
  IN IF r.ok THEN [ok |-> TRUE, val |-> from_be_bytes(r.bytes), err |-> NoError, pos |-> r.pos]
     ELSE [ok |-> FALSE, val |-> 0, err |-> IOErrorEof, pos |-> r.pos]

\* read_i64_from_bytes
read_i64_from_bytes(src, p) ==
  LET r == read_exact(src, p, 8)
  IN IF r.ok THEN [ok |-> TRUE, val |-> from_be_bytes_signed(r.bytes), err |-> NoError, pos |-> r.pos]
     ELSE [ok |-> FALSE, val |-> 0, err |-> IOErrorEof, pos |-> r.pos]

\* YPBankBinRecordParser::validate_magic
validate_magic(src, p) ==
  LET r == read_exact(src, p, 4)
  IN IF ~r.ok THEN Fail(ParseError("UnexpectedEOF", <<>>, ""), r.pos)
     ELSE IF r.bytes # MAGIC
       THEN Fail(ParseError("InvalidMagic",
                            Join([i \in 1..4 |-> Hex02(r.bytes[i])], <<" ">>), ""), r.pos)
     ELSE None(r.pos)

\* YPBankBinRecordParser::parse_record_size
parse_record_size(src, p) == read_unsigned_from_bytes(src, p, 4)

\* read_description_from_bytes that takes the description bytes with one
\* read call, which returns what is left of the stream
read_description_from_bytes_short_read(src, p) ==
  LET dl == read_unsigned_from_bytes(src, p, 4)
      n == IF dl.pos + dl.val > Len(src) THEN Len(src) - dl.pos ELSE dl.val
      db == read_exact(src, dl.pos, n)
      st == from_utf8(db.bytes)
  IN IF ~dl.ok THEN [ok |-> FALSE, val |-> <<>>, err |-> dl.err, pos |-> dl.pos]
     ELSE IF ~st.ok THEN [ok |-> FALSE, val |-> <<>>, err |-> st.err, pos |-> db.pos]
     ELSE [ok |-> TRUE, val |-> st.val, err |-> NoError, pos |-> db.pos]

\* YPBankBinRecordParser::read_description_from_bytes
read_description_from_bytes(src, p) ==
  LET dl == read_unsigned_from_bytes(src, p, 4)
      db == read_exact(src, dl.pos, dl.val)
      st == from_utf8(db.bytes)
  IN IF ~dl.ok THEN [ok |-> FALSE, val |-> <<>>, err |-> dl.err, pos |-> dl.pos]
     ELSE IF ~db.ok THEN [ok |-> FALSE, val |-> <<>>, err |-> IOErrorEof, pos |-> db.pos]
     ELSE IF ~st.ok THEN [ok |-> FALSE, val |-> <<>>, err |-> st.err, pos |-> db.pos]
     ELSE [ok |-> TRUE, val |-> st.val, err |-> NoError, pos |-> db.pos]

\* YPBankBinRecordParser::parse_record
parse_record(src, p) ==
  LET id == read_unsigned_from_bytes(src, p, 8)
      tb == read_unsigned_from_bytes(src, id.pos, 1)
      tt == type_from_int(tb.val)
      fb == read_unsigned_from_bytes(src, tb.pos, 8)
      fu == validate_from_user_id(fb.val, tt.val)
      ub == read_unsigned_from_bytes(src, fb.pos, 8)
      tu == validate_to_user_id(ub.val, tt.val)
      am == read_i64_from_bytes(src, ub.pos)
      ts == read_unsigned_from_bytes(src, am.pos, 8)
      sb == read_unsigned_from_bytes(src, ts.pos, 1)
      st == status_from_int(sb.val)
      ds == read_description_from_bytes(src, sb.pos)
  IN IF ~id.ok THEN Fail(id.err, id.pos)
     ELSE IF ~tb.ok THEN Fail(tb.err, tb.pos)
     ELSE IF ~tt.ok THEN Fail(tt.err, tb.pos)
     ELSE IF ~fb.ok THEN Fail(fb.err, fb.pos)
     ELSE IF ~fu.ok THEN Fail(fu.err, fb.pos)
     ELSE IF ~ub.ok THEN Fail(ub.err, ub.pos)
     ELSE IF ~tu.ok THEN Fail(tu.err, ub.pos)
     ELSE IF ~am.ok THEN Fail(am.err, am.pos)
     ELSE IF ~ts.ok THEN Fail(ts.err, ts.pos)
     ELSE IF ~sb.ok THEN Fail(sb.err, sb.pos)
     ELSE IF ~st.ok THEN Fail(st.err, sb.pos)
     ELSE IF ~ds.ok THEN Fail(ds.err, ds.pos)
     ELSE Some(YPBankRecord(id.val, tt.val, fu.val, tu.val, am.val, ts.val, st.val, ds.val),
               ds.pos)

\* the u32 sum of get_record_size for a description of len bytes,
\* 8 + 1 + 8 + 8 + 8 + 8 + 1 + 4 + len as u32: a sum of 2^32 or more wraps
\* in a build without overflow checks (val) and panics in a build with
\* them (overflow)
record_size_of_len(len) ==
  LET sum == WideAdd(Wide(8 + 1 + 8 + 8 + 8 + 8 + 1 + 4), as_u32(len))
  IN [val |-> as_u32(sum), overflow |-> sum.hi >= 65536]

\* YPBankBinRecordParser::get_record_size
get_record_size(description) ==
  LET size == record_size_of_len(Wide(Len(as_bytes(description)))).val
  IN size.hi * 65536 + size.lo

\* from_read that rejects a record whose bytes are not RECORD_SIZE many
bin_from_read_checks_size(src, p) ==
  LET vm == validate_magic(src, p)
      record_size == parse_record_size(src, vm.pos)
      record == parse_record(src, record_size.pos)
  IN IF vm.tag = "err"
       THEN IF vm.err = ParseError("UnexpectedEOF", <<>>, "") THEN None(vm.pos)
            ELSE Fail(vm.err, vm.pos)
     ELSE IF ~record_size.ok THEN Fail(record_size.err, record_size.pos)
     ELSE IF record_size.val = 0 THEN None(record_size.pos)
     ELSE IF record.tag = "some" /\ record.pos - record_size.pos # record_size.val
       THEN Fail(ParseError("InvalidRow",
           <<"r", "e", "c", "o", "r", "d", " ", "s", "i", "z", "e", " ", "m", "i", "s",
             "m", "a", "t", "c", "h">>, ""), record.pos)
     ELSE record

\* from_read without the check of a zero RECORD_SIZE
bin_from_read_no_terminator(src, p) ==
  LET vm == validate_magic(src, p)
      record_size == parse_record_size(src, vm.pos)
  IN IF vm.tag = "err"
       THEN IF vm.err = ParseError("UnexpectedEOF", <<>>, "") THEN None(vm.pos)
            ELSE Fail(vm.err, vm.pos)
     ELSE IF ~record_size.ok THEN Fail(record_size.err, record_size.pos)
     ELSE parse_record(src, record_size.pos)

\* from_read that passes every error of validate_magic on
bin_from_read_eof_error(src, p) ==
  LET vm == validate_magic(src, p)
      record_size == parse_record_size(src, vm.pos)
  IN IF vm.tag = "err" THEN Fail(vm.err, vm.pos)
     ELSE IF ~record_size.ok THEN Fail(record_size.err, record_size.pos)
     ELSE IF record_size.val = 0 THEN None(record_size.pos)
     ELSE parse_record(src, record_size.pos)

\* <YPBankBinRecordParser as YPBankRecordParser>::from_read
bin_from_read(src, p) ==
  LET vm == validate_magic(src, p)
      record_size == parse_record_size(src, vm.pos)
  IN IF vm.tag = "err"
       THEN IF vm.err = ParseError("UnexpectedEOF", <<>>, "") THEN None(vm.pos)
            ELSE Fail(vm.err, vm.pos)
     ELSE IF ~record_size.ok THEN Fail(record_size.err, record_size.pos)
     ELSE IF record_size.val = 0 THEN None(record_size.pos)
     ELSE parse_record(src, record_size.pos)

\* <YPBankBinRecordParser as YPBankRecordParser>::write_to: the bytes written
bin_write_to(record) ==
  MAGIC \o
  to_be_bytes(get_record_size(record.description), 4) \o
  to_be_bytes(record.id, 8) \o
  to_be_bytes(type_as_int(record.transaction_type), 1) \o
  to_be_bytes(record.from_user_id, 8) \o
  to_be_bytes(record.to_user_id, 8) \o
  to_be_bytes(record.amount, 8) \o
  to_be_bytes(record.ts, 8) \o
  to_be_bytes(status_as_int(record.status), 1) \o
  to_be_bytes(Len(as_bytes(record.description)), 4) \o
  as_bytes(record.description)

(***************************************************************************)
(* The binary codec on a record whose description is too long to spell     *)
(* out.  Such a description is one letter of one byte repeated,            *)
(* [letter, count]; its frame is [head, byte, count]: the bytes of the     *)
(* frame before the description, and the byte that follows them count      *)
(* times.  A stream is a sequence of at most one frame, and a position in  *)
(* it is a number of bytes (a usize).                                      *)
(***************************************************************************)
\* <YPBankBinRecordParser as YPBankRecordParser>::write_to: the frame written
\* in a build without overflow checks
large_write_to(record) ==
  LET len == record.description.count
      u32_to_be_bytes(v) == to_be_bytes(v.hi, 2) \o to_be_bytes(v.lo, 2)
  IN [head |-> MAGIC \o
               u32_to_be_bytes(record_size_of_len(len).val) \o
               to_be_bytes(record.id, 8) \o
               to_be_bytes(type_as_int(record.transaction_type), 1) \o
               to_be_bytes(record.from_user_id, 8) \o
               to_be_bytes(record.to_user_id, 8) \o
               to_be_bytes(record.amount, 8) \o
               to_be_bytes(record.ts, 8) \o
               to_be_bytes(status_as_int(record.status), 1) \o
               u32_to_be_bytes(as_u32(len)),
      byte |-> as_bytes(<<record.description.letter>>)[1],
      count |-> len]

\* the bytes of the stream after position p: the next k of them, or those
\* that are left when the stream ends before
Window(src, p, k) ==
  LET end == WideAdd(Wide(Len(src[1].head)), src[1].count)
      in_stream(i) == src # <<>> /\ WideLeq(WideAdd(p, Wide(i)), end)
      byte_at(q) == IF WideLeq(q, Wide(Len(src[1].head))) THEN src[1].head[q.lo]
                    ELSE src[1].byte
  IN [i \in 1..Cardinality({j \in 1..k : in_stream(j)}) |-> byte_at(WideAdd(p, Wide(i)))]

\* YPBankBinRecordParser::read_description_from_bytes; the description of
\* a frame starts where its head ends, and bytes below 0x80 are UTF-8
large_read_description_from_bytes(src, p) ==
  LET u32_from_be_bytes(bytes) ==
        [hi |-> from_be_bytes(SubSeq(bytes, 1, 2)), lo |-> from_be_bytes(SubSeq(bytes, 3, 4))]
      end == WideAdd(Wide(Len(src[1].head)), src[1].count)
      read(desc_len, start) ==
        IF ~WideLeq(WideAdd(start, desc_len), end)
          THEN [ok |-> FALSE, val |-> <<>>, err |-> IOErrorEof, pos |-> end]
          ELSE [ok |-> TRUE, val |-> [letter |-> char_from_u32(src[1].byte), count |-> desc_len],
                err |-> NoError, pos |-> WideAdd(start, desc_len)]
      length_read(dl) ==
        IF ~dl.ok
          THEN [ok |-> FALSE, val |-> <<>>, err |-> IOErrorEof, pos |-> WideAdd(p, Wide(dl.pos))]
          ELSE read(u32_from_be_bytes(dl.bytes), WideAdd(p, Wide(dl.pos)))
  IN length_read(read_exact(Window(src, p, 4), 0, 4))

\* YPBankBinRecordParser::parse_record
large_parse_record(src, p) ==
  LET w == Window(src, p, 8 + 1 + 8 + 8 + 8 + 8 + 1)
      at(q) == WideAdd(p, Wide(q))
      id == read_unsigned_from_bytes(w, 0, 8)
      tb == read_unsigned_from_bytes(w, id.pos, 1)
      tt == type_from_int(tb.val)
      fb == read_unsigned_from_bytes(w, tb.pos, 8)
      fu == validate_from_user_id(fb.val, tt.val)
      ub == read_unsigned_from_bytes(w, fb.pos, 8)
      tu == validate_to_user_id(ub.val, tt.val)
      am == read_i64_from_bytes(w, ub.pos)
      ts == read_unsigned_from_bytes(w, am.pos, 8)
      sb == read_unsigned_from_bytes(w, ts.pos, 1)
      st == status_from_int(sb.val)
      ds == large_read_description_from_bytes(src, at(sb.pos))
  IN IF ~id.ok THEN Fail(id.err, at(id.pos))
     ELSE IF ~tb.ok THEN Fail(tb.err, at(tb.pos))
     ELSE IF ~tt.ok THEN Fail(tt.err, at(tb.pos))
     ELSE IF ~fb.ok THEN Fail(fb.err, at(fb.pos))
     ELSE IF ~fu.ok THEN Fail(fu.err, at(fb.pos))
     ELSE IF ~ub.ok THEN Fail(ub.err, at(ub.pos))
     ELSE IF ~tu.ok THEN Fail(tu.err, at(ub.pos))
     ELSE IF ~am.ok THEN Fail(am.err, at(am.pos))
     ELSE IF ~ts.ok THEN Fail(ts.err, at(ts.pos))
     ELSE IF ~sb.ok THEN Fail(sb.err, at(sb.pos))
     ELSE IF ~st.ok THEN Fail(st.err, at(sb.pos))
     ELSE IF ~ds.ok THEN Fail(ds.err, ds.pos)
     ELSE Some(YPBankRecord(id.val, tt.val, fu.val, tu.val, am.val, ts.val, st.val, ds.val),
               ds.pos)

\* <YPBankBinRecordParser as YPBankRecordParser>::from_read
large_from_read(src, p) ==
  LET w == Window(src, p, 4 + 4)
      at(q) == WideAdd(p, Wide(q))
      vm == validate_magic(w, 0)
      record_size_bytes == read_exact(w, vm.pos, 4)
  IN IF vm.tag = "err"
       THEN IF vm.err = ParseError("UnexpectedEOF", <<>>, "") THEN None(at(vm.pos))
            ELSE Fail(vm.err, at(vm.pos))
     ELSE IF ~record_size_bytes.ok THEN Fail(IOErrorEof, at(record_size_bytes.pos))
     ELSE IF record_size_bytes.bytes = <<0, 0, 0, 0>> THEN None(at(record_size_bytes.pos))
     ELSE large_parse_record(src, at(record_size_bytes.pos))

(***************************************************************************)
(* Dispatcher (lib.rs CommonParser) and the inputs of the model.           *)
(***************************************************************************)
Format == {"Csv", "Txt", "Bin"}

\* Format::as_str
format_as_str(f) ==
  IF f = "Csv" THEN <<"c", "s", "v">>
  ELSE IF f = "Txt" THEN <<"t", "x", "t">>
  ELSE <<"b", "i", "n", "a", "r", "y">>

\* from_str that matches the string as it is given
format_from_str_case_sensitive(s) ==
  IF s = <<"c", "s", "v">> THEN [ok |-> TRUE, format |-> "Csv", err |-> NoError]
  ELSE IF s = <<"t", "x", "t">> THEN [ok |-> TRUE, format |-> "Txt", err |-> NoError]
  ELSE IF s = <<"b", "i", "n", "a", "r", "y">> THEN [ok |-> TRUE, format |-> "Bin", err |-> NoError]
  ELSE [ok |-> FALSE, format |-> "", err |-> ParseError("InvalidFormat", s, "")]

\* <Format as FromStr>::from_str
format_from_str(s) ==
  LET lower == to_lowercase(s)
  IN IF lower = <<"c", "s", "v">> THEN [ok |-> TRUE, format |-> "Csv", err |-> NoError]
     ELSE IF lower = <<"t", "x", "t">> THEN [ok |-> TRUE, format |-> "Txt", err |-> NoError]
     ELSE IF lower = <<"b", "i", "n", "a", "r", "y">>
       THEN [ok |-> TRUE, format |-> "Bin", err |-> NoError]
     ELSE [ok |-> FALSE, format |-> "", err |-> ParseError("InvalidFormat", s, "")]

\* RecordParser::from_read of the sequence codec CommonParser selects
record_from_read(fmt, src, p) ==
  IF fmt = "Csv" THEN csv_from_read(src, p)
  ELSE IF fmt = "Txt" THEN txt_from_read(src, p)
  ELSE bin_from_read(src, p)

\* RecordParser::write_to of the sequence codec CommonParser selects
record_write_to(fmt, record) ==
  IF fmt = "Csv" THEN csv_write_to(record)
  ELSE IF fmt = "Txt" THEN txt_write_to(record)
  ELSE bin_write_to(record)

\* Self::pre_read: CsvParser overrides the default of trait Parser
pre_read(fmt, src, p) == IF fmt = "Csv" THEN csv_pre_read(src, p) ELSE None(p)

\* pre_write without the override of CsvParser
pre_write_default(fmt) == <<>>

\* Self::pre_write: CsvParser overrides the default of trait Parser
pre_write(fmt) == IF fmt = "Csv" THEN csv_pre_write ELSE <<>>

\* result of Parser::from_read
ReadOk(recs) == [ok |-> TRUE, val |-> recs, err |-> NoError]
ReadErr(e) == [ok |-> FALSE, val |-> <<>>, err |-> e]
Pending == [ok |-> FALSE, val |-> <<>>, err |-> ParseError("pending", <<>>, "")]

\* records that respect the zero-id rule; their descriptions are a quoted
\* text with a two-byte character, the empty text, a text with a comma, a text with leading and
\* trailing spaces, and a text with a colon
ValidRecords ==
  { YPBankRecord(1000, "Deposit", 0, 5, 100, 1633, "Failure", <<"\"", "U+00E9", "\"">>),
    YPBankRecord(1001, "Transfer", 7, 12, 0 - 25, 99, "Pending", <<>>),
    YPBankRecord(3, "Withdrawal", 7, 0, 0, 0, "Success", <<"a", ",", "b">>),
    YPBankRecord(4, "Deposit", 2, 5, 1, 260, "Success", <<" ", "x", " ">>),
    YPBankRecord(5, "Transfer", 7, 12, 300, 70000, "Failure", <<"a", ":", "b">>) }

\* records a caller can build that break the zero-id rule
InvalidRecords ==
  { YPBankRecord(11, "Transfer", 0, 12, 100, 5, "Success", <<"o", "k">>),
    YPBankRecord(12, "Transfer", 7, 0, 100, 5, "Success", <<"o", "k">>),
    YPBankRecord(13, "Withdrawal", 0, 0, 100, 5, "Failure", <<"o", "k">>),
    YPBankRecord(14, "Deposit", 0, 0, 100, 5, "Pending", <<"o", "k">>) }

\* the record lists of at most MaxRecs records
RecordLists == UNION {[1..n -> ValidRecords \cup InvalidRecords] : n \in 0..MaxRecs}

\* the zero-id rule of the data model
ZeroIdRule(r) ==
  /\ (r.from_user_id = 0 => r.transaction_type = "Deposit")
  /\ (r.to_user_id = 0 => r.transaction_type = "Withdrawal")

(***************************************************************************)
(* State: one caller writes `records` in `format` to `sink`; the file is   *)
(* then opened as `source` (as written, or damaged) and read back; the     *)
(* converter (bin/converter.rs run_logic) writes what it read in another   *)
(* format.                                                                 *)
(***************************************************************************)
VARIABLES
  format,     \* the Format of the CommonParser in use
  records,    \* the Vec<YPBankRecord> handed to write_to
  sink,       \* what write_to has written so far
  widx,       \* the record the for loop of write_to is at
  source,     \* the stream handed to from_read
  pos,        \* how much of source the BufReader has handed out
  out,        \* the Vec `records` from_read accumulates
  result,     \* what from_read returned (Pending before it returns)
  pc,         \* where the caller is
  pass,       \* 1: written by the caller, 2: written by the converter
  orig        \* the list the caller wrote in pass 1

file_vars == <<format, records, sink, widx, source, pos, out, result, pc, pass, orig>>

\* a caller of Format::from_str, and a caller that drains a Separator
VARIABLES
  sel_arg,     \* the string handed to Format::from_str
  sel_given,   \* the Format whose as_str the string is ("" when it is not)
  sel_result,  \* what Format::from_str returned (NotSelected before)
  sep_line,    \* Separator.line
  sep_index,   \* Separator.index
  sep_inside,  \* Separator.is_inside_quotes
  sep_fields,  \* the fields next() has returned
  sep_done     \* next() has returned None

sel_vars == <<sel_arg, sel_given, sel_result>>
sep_vars == <<sep_line, sep_index, sep_inside, sep_fields, sep_done>>

vars == <<file_vars, sel_vars, sep_vars>>

\* Format::from_str has not been called
NotSelected == [ok |-> FALSE, format |-> "", err |-> ParseError("pending", <<>>, "")]

\* no caller of Format::from_str and no Separator
NoSelector == sel_arg = <<>> /\ sel_given = "" /\ sel_result = NotSelected
NoSeparator ==
  sep_line = <<>> /\ sep_index = 0 /\ sep_inside = FALSE /\ sep_fields = <<>> /\ sep_done = FALSE

\* no file is written or read
NoFile ==
  /\ format = "Csv" /\ records = <<>> /\ sink = <<>> /\ widx = 1 /\ source = <<>> /\ pos = 0
  /\ out = <<>> /\ result = Pending /\ pc = "idle" /\ pass = 1 /\ orig = <<>>

Init ==
  /\ format \in Format
  /\ records \in RecordLists
  /\ sink = <<>>
  /\ widx = 1
  /\ source = <<>>
  /\ pos = 0
  /\ out = <<>>
  /\ result = Pending
  /\ pc = "write_start"
  /\ pass = 1
  /\ orig = records
  /\ NoSelector
  /\ NoSeparator

\* Parser::write_to, line 31: Self::pre_write(w)?
PreWrite ==
  /\ pc = "write_start"
  /\ sink' = sink \o pre_write(format)
  /\ widx' = 1
  /\ pc' = "writing"
  /\ UNCHANGED <<format, records, source, pos, out, result, pass, orig>>
  /\ UNCHANGED <<sel_vars, sep_vars>>

\* write_to that leaves out a record that breaks the zero-id rule
WriteRecord_skips_invalid ==
  /\ pc = "writing"
  /\ widx <= Len(records)
  /\ sink' = IF ZeroIdRule(records[widx]) THEN sink \o record_write_to(format, records[widx])
             ELSE sink
  /\ widx' = widx + 1
  /\ UNCHANGED <<format, records, source, pos, out, result, pc, pass, orig>>
  /\ UNCHANGED <<sel_vars, sep_vars>>

\* Parser::write_to, lines 33-35: one iteration of the for loop
WriteRecord ==
  /\ pc = "writing"
  /\ widx <= Len(records)
  /\ sink' = sink \o record_write_to(format, records[widx])
  /\ widx' = widx + 1
  /\ UNCHANGED <<format, records, source, pos, out, result, pc, pass, orig>>
  /\ UNCHANGED <<sel_vars, sep_vars>>

\* Parser::write_to, line 37: Ok(())
WriteDone ==
  /\ pc = "writing"
  /\ widx > Len(records)
  /\ pc' = "written"
  /\ UNCHANGED <<format, records, sink, widx, source, pos, out, result, pass, orig>>
  /\ UNCHANGED <<sel_vars, sep_vars>>

\* the written file is opened unchanged (Cursor::new(&written) in the tests)
OpenWritten ==
  /\ pc = "written"
  /\ source' = sink
  /\ pos' = 0
  /\ pc' = "read_start"
  /\ UNCHANGED <<format, records, sink, widx, out, result, pass, orig>>
  /\ UNCHANGED <<sel_vars, sep_vars>>

\* length of what write_to wrote before the last record of the list
LastRecordStart(fmt, recs) ==
  IF recs = <<>> THEN 0
  ELSE Len(pre_write(fmt)) +
       Len(Concat([i \in 1..(Len(recs) - 1) |-> record_write_to(fmt, recs[i])]))

\* the records in whose encoding a truncated file ends
CutRecords ==
  { YPBankRecord(1000, "Deposit", 0, 5, 100, 1633, "Failure", <<"\"", "U+00E9", "\"">>),
    YPBankRecord(11, "Transfer", 0, 12, 100, 5, "Success", <<"o", "k">>) }

\* the file handed to from_read is a truncated copy of the written one; the
\* cut falls in the last record (a cut in an earlier record gives the same
\* file as a cut in the last record of a shorter list), which is one of
\* CutRecords, or in the prologue of an empty list; the records before the
\* last respect the zero-id rule, so that the read gets as far as the cut
OpenTruncated ==
  /\ pc = "written"
  /\ pass = 1
  /\ IF records = <<>> THEN TRUE ELSE records[Len(records)] \in CutRecords
  /\ \A i \in 1..(Len(records) - 1) : ZeroIdRule(records[i])
  /\ \E k \in LastRecordStart(format, records)..(Len(sink) - 1) :
       source' = SubSeq(sink, 1, k)
  /\ pos' = 0
  /\ pc' = "read_start"
  /\ UNCHANGED <<format, records, sink, widx, out, result, pass, orig>>
  /\ UNCHANGED <<sel_vars, sep_vars>>

\* csv files whose first line is not the header: the header line ends in
\* \r\n, the header line is missing, the header is in lower case, or the
\* first line is the byte 0xFF, which is not UTF-8
BadHeaderFiles(written) ==
  LET body == SubSeq(written, Len(csv_pre_write) + 1, Len(written))
  IN { as_bytes(SubSeq(TARGET_HEADER, 1, Len(TARGET_HEADER) - 1) \o <<"\r", "\n">>) \o body,
       body,
       as_bytes(to_lowercase(TARGET_HEADER)) \o body,
       <<255, 10>> \o body }

\* the csv file handed to from_read has a wrong first line
OpenBadHeader ==
  /\ pc = "written"
  /\ pass = 1
  /\ format = "Csv"
  /\ source' \in BadHeaderFiles(sink)
  /\ pos' = 0
  /\ pc' = "read_start"
  /\ UNCHANGED <<format, records, sink, widx, out, result, pass, orig>>
  /\ UNCHANGED <<sel_vars, sep_vars>>

\* the binary file handed to from_read has, after the frames of a list of
\* valid records, a frame that starts with four bytes other than the magic:
\* all zero (the bytes of the test test_from_read_invalid_magic), a wrong
\* last byte, a wrong first byte; what follows the four bytes is a
\* RECORD_SIZE of 0, or the rest of the frame of a valid record
OpenBadMagic ==
  /\ pc = "written"
  /\ pass = 1
  /\ format = "Bin"
  /\ \A i \in 1..Len(records) : ZeroIdRule(records[i])
  /\ \E magic \in { <<0, 0, 0, 0>>, <<89, 80, 66, 77>>, <<255, 80, 66, 78>> } :
     \E tail \in
         { <<0, 0, 0, 0>>,
           SubSeq(bin_write_to(YPBankRecord(4, "Deposit", 2, 5, 1, 260, "Success", <<" ", "x", " ">>)),
                  Len(MAGIC) + 1, 8 + 46 + 3) } :
       source' = sink \o magic \o tail
  /\ pos' = 0
  /\ pc' = "read_start"
  /\ UNCHANGED <<format, records, sink, widx, out, result, pass, orig>>
  /\ UNCHANGED <<sel_vars, sep_vars>>

\* length of what write_to has written after the first k records of the list
RecordEnd(fmt, recs, k) ==
  Len(pre_write(fmt)) + Len(Concat([i \in 1..k |-> record_write_to(fmt, recs[i])]))

\* the binary file handed to from_read has a frame with a valid magic and
\* a RECORD_SIZE of 0 put in after the first k frames of a list of valid
\* records; the other frames follow it, and then bytes that are not a frame
OpenTerminated ==
  /\ pc = "written"
  /\ pass = 1
  /\ format = "Bin"
  /\ \A i \in 1..Len(records) : ZeroIdRule(records[i])
  /\ \E k \in 0..Len(records) : \E garbage \in { <<>>, <<1, 2, 3>> } :
       LET cut == RecordEnd(format, records, k)
       IN source' = SubSeq(sink, 1, cut) \o MAGIC \o <<0, 0, 0, 0>> \o
                    SubSeq(sink, cut + 1, Len(sink)) \o garbage
  /\ pos' = 0
  /\ pc' = "read_start"
  /\ UNCHANGED <<format, records, sink, widx, out, result, pass, orig>>
  /\ UNCHANGED <<sel_vars, sep_vars>>

\* the binary file handed to from_read is the written one with the
\* RECORD_SIZE of every frame replaced by another non-zero value, as four
\* big-endian bytes: 1, 300 and 2^31 - 1
OpenResized ==
  /\ pc = "written"
  /\ pass = 1
  /\ format = "Bin"
  /\ records # <<>>
  /\ \E size \in { <<0, 0, 0, 1>>, <<0, 0, 1, 44>>, <<127, 255, 255, 255>> } :
       source' = Concat([i \in 1..Len(records) |->
                          MAGIC \o size \o
                          SubSeq(bin_write_to(records[i]), 9, Len(bin_write_to(records[i])))])
  /\ pos' = 0
  /\ pc' = "read_start"
  /\ UNCHANGED <<format, records, sink, widx, out, result, pass, orig>>
  /\ UNCHANGED <<sel_vars, sep_vars>>

\* a csv record line with the given field texts
CsvLine(values) == Join(values, <<SEP>>) \o <<"\n">>

\* a txt record with the given field texts: eight KEY: value lines and an
\* empty line
TxtLines(values) ==
  Concat([i \in 1..8 |-> FIELDS[i] \o <<TXT_SEP, " ">> \o values[i] \o <<NEW_LINE>>]) \o
  <<NEW_LINE>>

\* the field texts of a valid record
GoodValues ==
  txt_record_values(YPBankRecord(1000, "Deposit", 0, 5, 100, 1633, "Failure", <<"\"", "U+00E9", "\"">>))

\* status texts that are none of the three status tokens in any case
BadStatusTokens == { <<"D", "O", "N", "E">>, <<"s", "u", "c", "c", "e", "s">> }

\* the encodings of a record whose fields are valid except for its status;
\* in a frame the status bytes 3 and 255, which are outside 0..2
BadStatusRecords(fmt) ==
  IF fmt = "Csv"
    THEN { as_bytes(CsvLine([GoodValues EXCEPT ![7] = token])) : token \in BadStatusTokens }
  ELSE IF fmt = "Txt"
    THEN { as_bytes(TxtLines([GoodValues EXCEPT ![7] = token])) : token \in BadStatusTokens }
  ELSE { MAGIC \o <<0, 0, 0, 49>> \o
         to_be_bytes(1000, 8) \o <<0>> \o to_be_bytes(0, 8) \o to_be_bytes(5, 8) \o
         to_be_bytes(100, 8) \o to_be_bytes(1633, 8) \o <<b>> \o
         <<0, 0, 0, 3, 34, 82, 34>> : b \in { 3, 255 } }

\* the file handed to from_read has, after the records of a list of valid
\* records, a record with an invalid status
OpenBadStatus ==
  /\ pc = "written"
  /\ pass = 1
  /\ \A i \in 1..Len(records) : ZeroIdRule(records[i])
  /\ \E damaged \in BadStatusRecords(format) : source' = sink \o damaged
  /\ pos' = 0
  /\ pc' = "read_start"
  /\ UNCHANGED <<format, records, sink, widx, out, result, pass, orig>>
  /\ UNCHANGED <<sel_vars, sep_vars>>

\* field texts none of which but the user ids converts
BadValues == << <<"x">>, <<"B", "O", "G", "U", "S">>, <<"0">>, <<"0">>, <<"y">>, <<"z">>,
                <<"N", "O", "P", "E">>, <<"d">>, <<"e">> >>

\* the csv file handed to from_read has, after the lines of a list of valid
\* records, a line with a wrong number of fields: 7 or 9 fields that are
\* also invalid one by one
OpenBadRow ==
  /\ pc = "written"
  /\ pass = 1
  /\ format = "Csv"
  /\ \A i \in 1..Len(records) : ZeroIdRule(records[i])
  /\ \E row \in { CsvLine(SubSeq(BadValues, 1, 7)), CsvLine(BadValues) } : source' = sink \o as_bytes(row)
  /\ pos' = 0
  /\ pc' = "read_start"
  /\ UNCHANGED <<format, records, sink, widx, out, result, pass, orig>>
  /\ UNCHANGED <<sel_vars, sep_vars>>

\* orders in which the eight lines of a txt record are supplied: the order
\* of test_from_read_regular_case, the reverse order, a rotation
LineOrders ==
  { <<2, 4, 3, 6, 8, 1, 5, 7>>,
    <<8, 7, 6, 5, 4, 3, 2, 1>>,
    <<2, 3, 4, 5, 6, 7, 8, 1>> }

\* the txt record with the given field texts, its lines in the given order
TxtLinesInOrder(values, order) ==
  Concat([i \in 1..8 |-> FIELDS[order[i]] \o <<TXT_SEP, " ">> \o values[order[i]] \o <<NEW_LINE>>]) \o
  <<NEW_LINE>>

\* the txt file handed to from_read holds the records of a list of valid
\* records, the lines of each record in another order
OpenReordered ==
  /\ pc = "written"
  /\ pass = 1
  /\ format = "Txt"
  /\ records # <<>>
  /\ \A i \in 1..Len(records) : ZeroIdRule(records[i])
  /\ \E order \in LineOrders :
       source' = Concat([i \in 1..Len(records) |->
                          as_bytes(TxtLinesInOrder(txt_record_values(records[i]), order))])
  /\ pos' = 0
  /\ pc' = "read_start"
  /\ UNCHANGED <<format, records, sink, widx, out, result, pass, orig>>
  /\ UNCHANGED <<sel_vars, sep_vars>>

\* the first n lines KEY: value of a valid record
FirstLines(n) ==
  Concat([i \in 1..n |-> FIELDS[i] \o <<TXT_SEP, " ">> \o GoodValues[i] \o <<NEW_LINE>>])

\* the txt file handed to from_read has, after the records of a list of
\* valid records, comment and empty lines and an unfinished record: before
\* its lines stands nothing, or a comment line and an empty line; it has 0,
\* 1, 4 or 7 lines; after them stands the end of the stream, or an empty
\* line and the remaining lines of the record
OpenUnfinished ==
  /\ pc = "written"
  /\ pass = 1
  /\ format = "Txt"
  /\ \A i \in 1..Len(records) : ZeroIdRule(records[i])
  /\ \E lead \in { <<>>, <<COMMENT_PREFIX, " ", "c", NEW_LINE, NEW_LINE>> } :
     \E n \in {0, 1, 4, 7} :
     \E rest \in { <<>>,
                  <<NEW_LINE>> \o
                  SubSeq(FirstLines(8), Len(FirstLines(n)) + 1, Len(FirstLines(8))) } :
       source' = sink \o as_bytes(lead \o FirstLines(n) \o rest)
  /\ pos' = 0
  /\ pc' = "read_start"
  /\ UNCHANGED <<format, records, sink, widx, out, result, pass, orig>>
  /\ UNCHANGED <<sel_vars, sep_vars>>

\* a txt record of eight lines with the given keys and field texts
TxtKeyedLines(keys, values) ==
  Concat([i \in 1..8 |-> keys[i] \o <<TXT_SEP, " ">> \o values[i] \o <<NEW_LINE>>]) \o
  <<NEW_LINE>>

\* the txt file handed to from_read has, after the records of a list of
\* valid records, eight lines that do not name every field once: STATUS is
\* replaced by a second TX_ID; TX_TYPE is replaced by an unknown key and no
\* field text converts; AMOUNT and DESCRIPTION are replaced by TX_ID
OpenIncomplete ==
  /\ pc = "written"
  /\ pass = 1
  /\ format = "Txt"
  /\ \A i \in 1..Len(records) : ZeroIdRule(records[i])
  /\ \E group \in
         { TxtKeyedLines([FIELDS EXCEPT ![7] = FIELDS[1]], GoodValues),
           TxtKeyedLines([FIELDS EXCEPT ![2] = <<"F", "O", "O">>], SubSeq(BadValues, 1, 8)),
           TxtKeyedLines([FIELDS EXCEPT ![5] = FIELDS[1], ![8] = FIELDS[1]], GoodValues) } :
       source' = sink \o as_bytes(group)
  /\ pos' = 0
  /\ pc' = "read_start"
  /\ UNCHANGED <<format, records, sink, widx, out, result, pass, orig>>
  /\ UNCHANGED <<sel_vars, sep_vars>>

\* the csv file handed to from_read has a blank line (an empty line or a
\* line of spaces) put in after the first k record lines of a list of valid
\* records; the other record lines follow it, and then nothing or a line
\* that is no record
OpenBlankLine ==
  /\ pc = "written"
  /\ pass = 1
  /\ format = "Csv"
  /\ \A i \in 1..Len(records) : ZeroIdRule(records[i])
  /\ \E k \in 0..Len(records) :
     \E blank \in { <<"\n">>, <<" ", " ", "\n">> } :
     \E last \in { <<>>, CsvLine(BadValues) } :
       LET cut == RecordEnd(format, records, k)
       IN source' = SubSeq(sink, 1, cut) \o as_bytes(blank) \o
                    SubSeq(sink, cut + 1, Len(sink)) \o as_bytes(last)
  /\ pos' = 0
  /\ pc' = "read_start"
  /\ UNCHANGED <<format, records, sink, widx, out, result, pass, orig>>
  /\ UNCHANGED <<sel_vars, sep_vars>>

\* Parser::from_read, lines 11-15: the prologue check
PreRead ==
  /\ pc = "read_start"
  /\ \E r \in {pre_read(format, source, pos)} :
        /\ pos' = r.pos
        /\ IF r.tag = "err"
             THEN result' = ReadErr(r.err) /\ pc' = "done"
             ELSE result' = result /\ pc' = "reading"
  /\ out' = <<>>
  /\ UNCHANGED <<format, records, sink, widx, source, pass, orig>>
  /\ UNCHANGED <<sel_vars, sep_vars>>

\* from_read that leaves the loop on an error and returns what it has
ReadRecord_keeps_partial ==
  /\ pc = "reading"
  /\ \E record_opt \in {record_from_read(format, source, pos)} :
        /\ pos' = record_opt.pos
        /\ IF record_opt.tag = "some"
             THEN out' = Append(out, record_opt.rec) /\ result' = result /\ pc' = pc
             ELSE out' = out /\ result' = ReadOk(out) /\ pc' = "done"
  /\ UNCHANGED <<format, records, sink, widx, source, pass, orig>>
  /\ UNCHANGED <<sel_vars, sep_vars>>

\* from_read that starts over when the per-record read finds no record
ReadRecord_starts_over ==
  /\ pc = "reading"
  /\ \E record_opt \in {record_from_read(format, source, pos)} :
        IF record_opt.tag = "err"
          THEN /\ pos' = record_opt.pos /\ out' = out
               /\ result' = ReadErr(record_opt.err) /\ pc' = "done"
        ELSE IF record_opt.tag = "some"
          THEN /\ pos' = record_opt.pos /\ out' = Append(out, record_opt.rec)
               /\ result' = result /\ pc' = pc
        ELSE pos' = 0 /\ out' = <<>> /\ result' = result /\ pc' = "read_start"
  /\ UNCHANGED <<format, records, sink, widx, source, pass, orig>>
  /\ UNCHANGED <<sel_vars, sep_vars>>

\* Parser::from_read, lines 16-24: one iteration of the loop, and the return
ReadRecord ==
  /\ pc = "reading"
  /\ \E record_opt \in {record_from_read(format, source, pos)} :
        /\ pos' = record_opt.pos
        /\ IF record_opt.tag = "err"
             THEN out' = out /\ result' = ReadErr(record_opt.err) /\ pc' = "done"
           ELSE IF record_opt.tag = "some"
             THEN out' = Append(out, record_opt.rec) /\ result' = result /\ pc' = pc
           ELSE out' = out /\ result' = ReadOk(out) /\ pc' = "done"
  /\ UNCHANGED <<format, records, sink, widx, source, pass, orig>>
  /\ UNCHANGED <<sel_vars, sep_vars>>

\* converter run_logic on a file as it was written: what input_parser read
\* is written by output_parser
Convert ==
  /\ pc = "done"
  /\ pass = 1
  /\ source = sink
  /\ result.ok
  /\ \E output_format \in Format : format' = output_format
  /\ records' = result.val
  /\ sink' = <<>>
  /\ widx' = 1
  /\ source' = <<>>
  /\ pos' = 0
  /\ out' = <<>>
  /\ result' = Pending
  /\ pc' = "write_start"
  /\ pass' = 2
  /\ UNCHANGED orig
  /\ UNCHANGED <<sel_vars, sep_vars>>

Next ==
  \/ PreWrite
  \/ WriteRecord
  \/ WriteDone
  \/ OpenWritten
  \/ OpenTruncated
  \/ OpenBadHeader
  \/ OpenBadMagic
  \/ OpenTerminated
  \/ OpenResized
  \/ OpenBadStatus
  \/ OpenBadRow
  \/ OpenReordered
  \/ OpenUnfinished
  \/ OpenIncomplete
  \/ OpenBlankLine
  \/ PreRead
  \/ ReadRecord
  \/ Convert

Spec == Init /\ [][Next]_vars

\* from_read is straight-line code around a loop: once called, its thread
\* keeps taking steps until it returns.  This is weak fairness of PreRead
\* and of ReadRecord, written out: PreRead is enabled exactly when
\* pc = "read_start" and ReadRecord exactly when pc = "reading", and each
\* of their steps changes pc or pos.
ReadFairness ==
  /\ ([]<>(pc # "read_start") \/ []<><<PreRead>>_vars)
  /\ ([]<>(pc # "reading") \/ []<><<ReadRecord>>_vars)

SpecLive == Spec /\ ReadFairness

(***************************************************************************)
(* The format selector: a caller hands Format::from_str a string (as the   *)
(* converter does with --input-format and --output-format), or the        *)
(* as_str of a Format.                                                     *)
(***************************************************************************)
\* the spellings of a word in upper and lower case letters
CaseVariants(word) ==
  { [i \in 1..Len(word) |-> IF upper[i] THEN char_from_u32(code_point(word[i]) - 32)
                           ELSE word[i]] :
      upper \in [1..Len(word) -> BOOLEAN] }

\* strings that name no format
OtherNames ==
  { <<>>, <<"j", "s", "o", "n">>, <<"J", "S", "O", "N">>, <<"c", "s">>,
    <<"c", "s", "v", "s">>, <<" ", "c", "s", "v">>, <<"c", "s", "v", " ">>,
    <<"c", "s", "v", "\n">>, <<"b", "i", "n">>, <<"B", "I", "N">>,
    <<"t", "e", "x", "t">>, <<"t", "x">>, <<"b", "i", "n", "a", "r">>,
    <<"b", "i", "n", "a", "r", "y", "1">>,
    <<"c", "s", "v", "U+00C9">>, <<"b", "U+0130", "n", "a", "r", "y">>,
    <<"t", "U+212A", "t">>, <<"c", "U+017F", "v">> }

\* no file is open; a string is about to be handed to Format::from_str
InitFormat ==
  /\ NoFile
  /\ NoSeparator
  /\ sel_arg \in CaseVariants(<<"c", "s", "v">>) \cup CaseVariants(<<"t", "x", "t">>) \cup
                 CaseVariants(<<"b", "i", "n", "a", "r", "y">>) \cup OtherNames
  /\ sel_given = ""
  /\ sel_result = NotSelected

\* the caller takes the string from Format::as_str
AsStr ==
  /\ sel_given = ""
  /\ sel_result = NotSelected
  /\ \E f \in Format : sel_given' = f /\ sel_arg' = format_as_str(f)
  /\ UNCHANGED <<sel_result, file_vars, sep_vars>>

\* Format::from_str(sel_arg)
FromStr ==
  /\ sel_result = NotSelected
  /\ sel_result' = format_from_str(sel_arg)
  /\ UNCHANGED <<sel_arg, sel_given, file_vars, sep_vars>>

NextFormat == AsStr \/ FromStr

SpecFormat == InitFormat /\ [][NextFormat]_vars

(***************************************************************************)
(* The tokenizer: a caller builds a Separator on a line and calls next()   *)
(* until it returns None (separator_tests, csv_format.rs from_read).       *)
(***************************************************************************)
\* the lines of at most MaxLine characters: a letter, a letter of two
\* bytes, the delimiter, the quote
Lines == UNION {[1..n -> {"a", "U+00E9", SEP, QUOTE}] : n \in 0..MaxLine}

\* Separator::new(line)
InitSeparator ==
  /\ NoFile
  /\ NoSelector
  /\ sep_line \in Lines
  /\ sep_index = 0
  /\ sep_inside = FALSE
  /\ sep_fields = <<>>
  /\ sep_done = FALSE

\* one call of Separator::next by the caller that collects the fields
SeparatorStep ==
  /\ ~sep_done
  /\ \E item \in {SeparatorNext(sep_line, sep_index, sep_inside)} :
       /\ sep_index' = item.index
       /\ sep_inside' = item.inside
       /\ IF item.some
            THEN sep_fields' = Append(sep_fields, item.field) /\ sep_done' = sep_done
            ELSE sep_fields' = sep_fields /\ sep_done' = TRUE
  /\ UNCHANGED <<sep_line, file_vars, sel_vars>>

NextSeparator == SeparatorStep

SpecSeparator == InitSeparator /\ [][NextSeparator]_vars

(***************************************************************************)
(* A caller writes one record with a description of up to 2^32 - 1 bytes   *)
(* with BinParser::write_to and reads the file back with                   *)
(* BinParser::from_read.                                                   *)
(***************************************************************************)
\* the record is a valid one; its description has 3, 2^32 - 47, 2^32 - 46,
\* 2^32 - 45 or 2^32 - 1 letters a
InitLarge ==
  LET counts == { Wide(3), [hi |-> 65535, lo |-> 65489], [hi |-> 65535, lo |-> 65490],
                  [hi |-> 65535, lo |-> 65491], [hi |-> 65535, lo |-> 65535] }
  IN /\ format = "Bin"
     /\ \E r \in ValidRecords : \E count \in counts :
          records = <<[r EXCEPT !.description = [letter |-> "a", count |-> count]]>>
     /\ sink = <<>>
     /\ widx = 1
     /\ source = <<>>
     /\ pos = 0
     /\ out = <<>>
     /\ result = Pending
     /\ pc = "write_start"
     /\ pass = 1
     /\ orig = records
     /\ NoSelector
     /\ NoSeparator

\* Parser::write_to, lines 33-35: one iteration of the for loop; the sum of
\* get_record_size panics in a build with overflow checks when it does not
\* fit in u32
WriteLargeRecord ==
  /\ pc = "writing"
  /\ widx <= Len(records)
  /\ \E overflow_checks \in BOOLEAN :
       IF overflow_checks /\ record_size_of_len(records[widx].description.count).overflow
         THEN sink' = sink /\ widx' = widx /\ pc' = "panicked"
         ELSE sink' = sink \o <<large_write_to(records[widx])>> /\ widx' = widx + 1 /\ pc' = pc
  /\ UNCHANGED <<format, records, source, pos, out, result, pass, orig>>
  /\ UNCHANGED <<sel_vars, sep_vars>>

\* the written file is opened unchanged
OpenLarge ==
  /\ pc = "written"
  /\ source' = sink
  /\ pos' = Wide(0)
  /\ pc' = "read_start"
  /\ UNCHANGED <<format, records, sink, widx, out, result, pass, orig>>
  /\ UNCHANGED <<sel_vars, sep_vars>>

\* Parser::from_read, lines 16-24: one iteration of the loop, and the return
ReadLargeRecord ==
  /\ pc = "reading"
  /\ \E record_opt \in {large_from_read(source, pos)} :
        /\ pos' = record_opt.pos
        /\ IF record_opt.tag = "err"
             THEN out' = out /\ result' = ReadErr(record_opt.err) /\ pc' = "done"
           ELSE IF record_opt.tag = "some"
             THEN out' = Append(out, record_opt.rec) /\ result' = result /\ pc' = pc
           ELSE out' = out /\ result' = ReadOk(out) /\ pc' = "done"
  /\ UNCHANGED <<format, records, sink, widx, source, pass, orig>>
  /\ UNCHANGED <<sel_vars, sep_vars>>

NextLarge ==
  \/ PreWrite
  \/ WriteLargeRecord
  \/ WriteDone
  \/ OpenLarge
  \/ PreRead
  \/ ReadLargeRecord

SpecLarge == InitLarge /\ [][NextLarge]_vars

(***************************************************************************)
(* Properties.                                                             *)
(***************************************************************************)
\* every record of the list respects the zero-id rule
ValidList(l) == \A i \in 1..Len(l) : ZeroIdRule(l[i])

\* the prologue the specification gives each format
Prologue(fmt) == IF fmt = "Csv" THEN as_bytes(TARGET_HEADER) ELSE <<>>

\* the whole file of a list: prologue, then the records in order
Written(fmt, l) == Prologue(fmt) \o Concat([i \in 1..Len(l) |-> record_write_to(fmt, l[i])])

\* the file that is read is the file that was written
Clean == source = sink

\* C1: a list of valid records written with the binary sequence codec and
\* read back with it gives the same list, field for field, in order
C1_BinaryRoundTrip ==
  (pc = "done" /\ format = "Bin" /\ Clean /\ ValidList(records))
    => result = ReadOk(records)

\* C2 as stated: a list of valid records with arbitrary descriptions
\* written as csv and read back as csv gives the same list
C2_CsvRoundTrip ==
  (pc = "done" /\ format = "Csv" /\ Clean /\ ValidList(records))
    => result = ReadOk(records)

\* C3 as stated: a list of valid records with arbitrary descriptions
\* written as txt and read back as txt gives the same list
C3_TxtRoundTrip ==
  (pc = "done" /\ format = "Txt" /\ Clean /\ ValidList(records))
    => result = ReadOk(records)

\* C4 as stated: a file of valid records that was read and converted to any
\* other format reads back as the records of the original file
C4_CrossFormat ==
  (pc = "done" /\ pass = 2 /\ Clean /\ ValidList(orig))
    => result = ReadOk(orig)

\* a description that every text codec carries as one field
PlainDescription(d) ==
  /\ d # <<>>
  /\ \A i \in 1..Len(d) : d[i] \notin {",", ":", "\n"}
  /\ ~IsWhitespace(d[1])
  /\ ~IsWhitespace(d[Len(d)])

\* i is the first record of the list that breaks the zero-id rule, and it
\* and the records before it are otherwise well-formed in every encoding
FirstRuleBreaker(l, i) ==
  /\ ~ZeroIdRule(l[i])
  /\ \A j \in 1..(i - 1) : ZeroIdRule(l[j])
  /\ \A j \in 1..i : PlainDescription(l[j].description)

\* C5: in every encoding, reading a well-formed record that breaks the
\* zero-id rule fails with InvalidUserId("0", its type), and no codec ever
\* returns a record that breaks the rule
C5_InvariantRejection ==
  /\ \A i \in 1..Len(records) :
       (pc = "done" /\ Clean /\ FirstRuleBreaker(records, i))
         => result = ReadErr(ParseError("InvalidUserId", <<"0">>, records[i].transaction_type))
  /\ \A k \in 1..Len(out) : ZeroIdRule(out[k])
  /\ \A k \in 1..Len(result.val) : ZeroIdRule(result.val[k])

C5_Witness ==
  /\ pc = "done" /\ Clean /\ format = "Txt"
  /\ Len(records) = 2 /\ FirstRuleBreaker(records, 2)
  /\ records[2].from_user_id # 0 /\ records[2].to_user_id = 0
  /\ Len(out) = 1
  /\ result = ReadErr(ParseError("InvalidUserId", <<"0">>, "Transfer"))

\* what the per-record codec makes of each record of the list on its own
Decoded(fmt, l) ==
  [i \in 1..Len(l) |-> record_from_read(fmt, record_write_to(fmt, l[i]), 0)]

\* C6: the sequence read returns every record of the stream in order, or the
\* error of the first record that fails to parse and none of the records
\* read before it
C6_AllOrNothing ==
  (pc = "done" /\ Clean) =>
    LET dec == Decoded(format, records)
        stop == {i \in 1..Len(records) : dec[i].tag # "some"}
        first == CHOOSE i \in stop : \A j \in stop : i <= j
    IN IF stop = {} THEN result = ReadOk([i \in 1..Len(records) |-> dec[i].rec])
       ELSE IF dec[first].tag = "err"
         THEN result = ReadErr(dec[first].err) /\ Len(out) = first - 1
       ELSE result = ReadOk([i \in 1..(first - 1) |-> dec[i].rec])

C6_Witness ==
  /\ pc = "done" /\ Clean /\ format = "Csv"
  /\ Len(records) = 2
  /\ Len(out) = 1 /\ out[1] = records[1]
  /\ ~result.ok /\ result.val = <<>>
  /\ result.err.kind = "InvalidRow"

\* C7: what write_all has put on the sink is the prologue of the format (the
\* header line for csv, nothing for txt and binary) followed by the
\* encodings of the records in input order and nothing else
C7_WriteAllStructure ==
  /\ pc = "writing" => sink = Written(format, SubSeq(records, 1, widx - 1))
  /\ pc \in {"written", "read_start", "reading", "done"} => sink = Written(format, records)
  /\ (pc = "written" /\ records = <<>>) => sink = Prologue(format)

C7_Witness ==
  /\ pc = "written" /\ format = "Csv" /\ Len(records) = 2
  /\ records[1] # records[2]
  /\ sink = as_bytes(TARGET_HEADER) \o csv_write_to(records[1]) \o csv_write_to(records[2])

\* the first line of a stream of bytes, with its newline if it has one
FirstLine(s) ==
  LET nl == {i \in 1..Len(s) : s[i] = 10}
  IN IF nl = {} THEN s ELSE SubSeq(s, 1, CHOOSE i \in nl : \A j \in nl : i <= j)

\* the first line of a text, with its newline if it has one
FirstTextLine(s) ==
  LET nl == {i \in 1..Len(s) : s[i] = "\n"}
  IN IF nl = {} THEN s ELSE SubSeq(s, 1, CHOOSE i \in nl : \A j \in nl : i <= j)

\* the text a stream of UTF-8 bytes holds
TextOf(bytes) == from_utf8(bytes).val

\* C8: a csv source whose first line is not exactly the header line fails
\* with InvalidCsvHeader carrying that line, before any record line is read
C8_HeaderEnforcement ==
  (format = "Csv" /\ pc \in {"reading", "done"} /\ FirstLine(source) # as_bytes(TARGET_HEADER))
    => /\ pc = "done"
       /\ result = ReadErr(ParseError("InvalidCsvHeader", TextOf(FirstLine(source)), ""))
       /\ out = <<>>
       /\ pos = Len(FirstLine(source))

\* the binary file holds exactly the first k records of the list, all valid
EndsAtBoundary(k) ==
  /\ source = Written("Bin", SubSeq(records, 1, k))
  /\ ValidList(SubSeq(records, 1, k))

\* C9: a binary source that ends exactly at a record boundary (the empty
\* source included) reads as the records before the end, without error
C9_BinaryCleanEnd ==
  \A k \in 0..Len(records) :
    (pc = "done" /\ format = "Bin" /\ EndsAtBoundary(k))
      => result = ReadOk(SubSeq(records, 1, k))

C9_Witness ==
  /\ pc = "done" /\ format = "Bin"
  /\ Len(records) = 2 /\ EndsAtBoundary(1) /\ ~Clean
  /\ result = ReadOk(<<records[1]>>)

\* the binary file holds the first k records of the list, all valid, and
\* then the first j bytes of the magic of the next record
EndsInMagic(k, j) ==
  /\ source = Written("Bin", SubSeq(records, 1, k)) \o SubSeq(MAGIC, 1, j)
  /\ ValidList(SubSeq(records, 1, k))

\* C10 as stated: a binary source that ends after 1, 2 or 3 bytes of a
\* magic makes the read fail with UnexpectedEOF
C10_BinaryPartialMagic ==
  \A k \in 0..(Len(records) - 1) : \A j \in 1..3 :
    (pc = "done" /\ format = "Bin" /\ EndsInMagic(k, j))
      => result = ReadErr(ParseError("UnexpectedEOF", <<>>, ""))


\* the binary file holds the first k records of the list and then the first
\* j bytes of the frame of the next record
EndsInFrame(k, j) ==
  source = Written("Bin", SubSeq(records, 1, k)) \o SubSeq(bin_write_to(records[k + 1]), 1, j)

\* C11: a binary source that ends after the magic of a frame and before the
\* end of that frame (in RECORD_SIZE, a fixed field, DESC_LEN or the
\* description) makes the read fail, and no record is returned
C11_BinaryTruncatedFrame ==
  \A k \in 0..(Len(records) - 1) :
    LET j == Len(source) - Len(Written("Bin", SubSeq(records, 1, k)))
    IN (pc = "done" /\ format = "Bin"
        /\ j >= Len(MAGIC) /\ j < Len(bin_write_to(records[k + 1]))
        /\ EndsInFrame(k, j))
         => ~result.ok /\ result.val = <<>> /\ result.err.kind # "pending"

C11_Witness ==
  /\ pc = "done" /\ format = "Bin" /\ Len(records) = 2
  /\ ZeroIdRule(records[2]) /\ Len(records[2].description) = 3
  /\ EndsInFrame(1, 8 + 46 + 1)
  /\ Len(out) = 1
  /\ result = ReadErr(IOErrorEof)

\* two upper-case hex digits of the bytes that occur in a magic of the model
HexText ==
  [b \in {0, 66, 77, 78, 80, 89, 255} |->
     CASE b = 0 -> <<"0", "0">>
       [] b = 66 -> <<"4", "2">>
       [] b = 77 -> <<"4", "D">>
       [] b = 78 -> <<"4", "E">>
       [] b = 80 -> <<"5", "0">>
       [] b = 89 -> <<"5", "9">>
       [] b = 255 -> <<"F", "F">>]

\* the four bytes the source holds after the frames that were written
FoundMagic == SubSeq(source, Len(sink) + 1, Len(sink) + Len(MAGIC))

\* C12: when the four bytes at a record boundary are not the magic, the read
\* fails with InvalidMagic whose text is the four bytes in two-digit
\* upper-case hex separated by spaces, whatever follows them
C12_BinaryInvalidMagic ==
  (pc = "done" /\ format = "Bin" /\ ValidList(records)
   /\ Len(source) >= Len(sink) + Len(MAGIC)
   /\ SubSeq(source, 1, Len(sink)) = sink
   /\ FoundMagic # MAGIC)
    => /\ result = ReadErr(ParseError("InvalidMagic",
                                      HexText[FoundMagic[1]] \o <<" ">> \o
                                      HexText[FoundMagic[2]] \o <<" ">> \o
                                      HexText[FoundMagic[3]] \o <<" ">> \o
                                      HexText[FoundMagic[4]], ""))
       /\ pos = Len(sink) + Len(MAGIC)

C12_Witness ==
  /\ pc = "done" /\ format = "Bin" /\ Len(records) = 1
  /\ source = sink \o <<89, 80, 66, 77>> \o <<0, 0, 0, 0>>
  /\ Len(out) = 1
  /\ result.err = ParseError("InvalidMagic",
                             <<"5", "9", " ", "5", "0", " ", "4", "2", " ", "4", "D">>, "")

\* the bytes are the big-endian form of the non-negative v below 2^24
BigEndianOf(bytes, v) ==
  /\ \A i \in 1..(Len(bytes) - 3) : bytes[i] = 0
  /\ bytes[Len(bytes) - 2] * 65536 + bytes[Len(bytes) - 1] * 256 + bytes[Len(bytes)] = v

\* the 8 bytes are the big-endian two's complement form of v, -2^24 < v < 2^24
BigEndianSignedOf(bytes, v) ==
  IF v >= 0 THEN BigEndianOf(bytes, v)
  ELSE /\ \A i \in 1..5 : bytes[i] = 255
       /\ bytes[6] * 65536 + bytes[7] * 256 + bytes[8] = 16777216 + v

\* the integer code the binary layout gives a transaction type and a status
TypeCode(t) == CASE t = "Deposit" -> 0 [] t = "Transfer" -> 1 [] t = "Withdrawal" -> 2
StatusCode(s) == CASE s = "Success" -> 0 [] s = "Failure" -> 1 [] s = "Pending" -> 2

\* f is the frame of record r: MAGIC, RECORD_SIZE, TX_ID, TX_TYPE,
\* FROM_USER_ID, TO_USER_ID, AMOUNT, TIMESTAMP, STATUS, DESC_LEN, DESCRIPTION
FrameOf(f, r) ==
  LET n == Len(f) - 54
      text == from_utf8(SubSeq(f, 55, Len(f)))
  IN /\ n >= 0
     /\ SubSeq(f, 1, 4) = <<89, 80, 66, 78>>
     /\ BigEndianOf(SubSeq(f, 5, 8), 46 + n)
     /\ SubSeq(f, 5, 8) # <<0, 0, 0, 0>>
     /\ BigEndianOf(SubSeq(f, 9, 16), r.id)
     /\ f[17] = TypeCode(r.transaction_type)
     /\ BigEndianOf(SubSeq(f, 18, 25), r.from_user_id)
     /\ BigEndianOf(SubSeq(f, 26, 33), r.to_user_id)
     /\ BigEndianSignedOf(SubSeq(f, 34, 41), r.amount)
     /\ BigEndianOf(SubSeq(f, 42, 49), r.ts)
     /\ f[50] = StatusCode(r.status)
     /\ BigEndianOf(SubSeq(f, 51, 54), n)
     /\ text.ok /\ text.val = r.description

\* what the last WriteRecord step put on the sink
LastWritten(fmt) ==
  SubSeq(sink, LastRecordStart(fmt, SubSeq(records, 1, widx - 1)) + 1, Len(sink))

\* C13: the frame written for one record has 8 + 46 + n bytes, n the byte
\* length of the description: the magic, RECORD_SIZE = 46 + n (never 0), the
\* fixed fields in their order as big-endian integers, DESC_LEN = n, and the
\* n bytes of the description
C13_BinaryFrameLayout ==
  (pc = "writing" /\ format = "Bin" /\ widx > 1) =>
    LET f == sink[widx - 1]
        r == records[widx - 1]
        n == r.description.count
        U32Of(bytes, hi, lo) == bytes[1] * 256 + bytes[2] = hi /\ bytes[3] * 256 + bytes[4] = lo
    IN /\ Len(sink) = widx - 1
       /\ Len(f.head) = 8 + 46
       /\ f.count = n
       /\ SubSeq(f.head, 1, 4) = <<89, 80, 66, 78>>
       /\ U32Of(SubSeq(f.head, 5, 8), n.hi + ((n.lo + 46) \div 65536), (n.lo + 46) % 65536)
       /\ SubSeq(f.head, 5, 8) # <<0, 0, 0, 0>>
       /\ BigEndianOf(SubSeq(f.head, 9, 16), r.id)
       /\ f.head[17] = TypeCode(r.transaction_type)
       /\ BigEndianOf(SubSeq(f.head, 18, 25), r.from_user_id)
       /\ BigEndianOf(SubSeq(f.head, 26, 33), r.to_user_id)
       /\ BigEndianSignedOf(SubSeq(f.head, 34, 41), r.amount)
       /\ BigEndianOf(SubSeq(f.head, 42, 49), r.ts)
       /\ f.head[50] = StatusCode(r.status)
       /\ U32Of(SubSeq(f.head, 51, 54), n.hi, n.lo)
       /\ r.description.letter = "a" /\ f.byte = 97

\* the binary file starts with the frames of the first k records of the
\* list, all valid, and then has a valid magic and a RECORD_SIZE of 0
TerminatedAfter(k) ==
  LET head == Written("Bin", SubSeq(records, 1, k)) \o <<89, 80, 66, 78, 0, 0, 0, 0>>
  IN /\ Len(source) >= Len(head)
     /\ SubSeq(source, 1, Len(head)) = head
     /\ ValidList(SubSeq(records, 1, k))

\* C14: a frame with a valid magic and RECORD_SIZE 0 ends the read: the
\* result is the records before that frame, and nothing after the zero
\* RECORD_SIZE is read
C14_BinaryTerminator ==
  \A k \in 0..Len(records) :
    (pc = "done" /\ format = "Bin" /\ TerminatedAfter(k))
      => /\ result = ReadOk(SubSeq(records, 1, k))
         /\ pos = Len(Written("Bin", SubSeq(records, 1, k))) + 8

C14_Witness ==
  /\ pc = "done" /\ format = "Bin" /\ Len(records) = 2
  /\ TerminatedAfter(1)
  /\ Len(source) = Len(sink) + 8 + 3
  /\ result = ReadOk(<<records[1]>>)

\* the source differs from the written binary file in RECORD_SIZE bytes
\* only, and no RECORD_SIZE of the source is 0
DiffersInSizesOnly ==
  /\ Len(source) = Len(sink)
  /\ source # sink
  /\ \A k \in 1..Len(records) :
       \E at \in {Len(Written("Bin", SubSeq(records, 1, k - 1)))} :
       \E end \in {Len(Written("Bin", SubSeq(records, 1, k)))} :
         /\ SubSeq(source, at + 1, at + 4) = SubSeq(sink, at + 1, at + 4)
         /\ SubSeq(source, at + 5, at + 8) # <<0, 0, 0, 0>>
         /\ SubSeq(source, at + 9, end) = SubSeq(sink, at + 9, end)

\* the records before the first one that breaks the zero-id rule
ValidPrefix(l) ==
  LET bad == {i \in 1..Len(l) : ~ZeroIdRule(l[i])}
  IN IF bad = {} THEN l
     ELSE SubSeq(l, 1, (CHOOSE i \in bad : \A j \in bad : i <= j) - 1)

\* C15: a binary stream that differs from the written one only in non-zero
\* RECORD_SIZE values decodes as the written one does: to the same records,
\* consuming the whole stream, or to the same error after the same records
C15_RecordSizeIgnored ==
  (pc = "done" /\ format = "Bin" /\ DiffersInSizesOnly) =>
    LET valid == ValidPrefix(records)
    IN IF valid = records
         THEN result = ReadOk(records) /\ pos = Len(source)
         ELSE /\ result = ReadErr(ParseError("InvalidUserId", <<"0">>,
                                             records[Len(valid) + 1].transaction_type))
              /\ out = valid

C15_Witness ==
  /\ pc = "done" /\ format = "Bin" /\ Len(records) = 2
  /\ DiffersInSizesOnly
  /\ SubSeq(source, 5, 8) = <<127, 255, 255, 255>>
  /\ records[1].description # <<>> /\ records[2].description # <<>>
  /\ result = ReadOk(records) /\ pos = Len(source)

\* every record of the list reads back from the encoding as it was written
ReadsBack(fmt, l) ==
  /\ ValidList(l)
  /\ fmt # "Bin" => \A i \in 1..Len(l) : PlainDescription(l[i].description)

\* C16 as stated: in every encoding, a record whose status is invalid and
\* whose other fields are valid makes the read fail with InvalidStatusValue
C16_InvalidStatusKind ==
  (pc = "done" /\ ReadsBack(format, records)
   /\ \E damaged \in BadStatusRecords(format) : source = sink \o damaged)
    => ~result.ok /\ result.err.kind = "InvalidStatusValue"

RECURSIVE AfterDelimiters(_, _)
\* what is left of a line after its n-th comma
AfterDelimiters(line, n) ==
  IF n = 0 THEN line
  ELSE IF line = <<>> THEN <<>>
  ELSE IF Head(line) = "," THEN AfterDelimiters(Tail(line), n - 1)
  ELSE AfterDelimiters(Tail(line), n)

\* the record line of a record in the csv file, without its newline
RecordLine(r) == TextOf(SubSeq(csv_write_to(r), 1, Len(csv_write_to(r)) - 1))

\* C17 as stated: a csv line whose first seven fields are valid is read,
\* and the description of its record is all of the line after the seventh
\* comma, whatever commas or quotes that remainder holds
C17_CsvDescriptionVerbatim ==
  (pc = "done" /\ format = "Csv" /\ Clean /\ ValidList(records))
    => /\ result.ok
       /\ Len(result.val) = Len(records)
       /\ \A i \in 1..Len(result.val) :
            result.val[i].description = AfterDelimiters(RecordLine(records[i]), 7)

\* the number of commas of a line
Commas(line) == Cardinality({i \in 1..Len(line) : line[i] = ","})

\* the first line the source holds after the lines that were written
AddedLine == TextOf(FirstLine(SubSeq(source, Len(sink) + 1, Len(source))))

\* C18: a csv record line of 7 or 9 fields fails with InvalidRow even when
\* its fields are invalid one by one: the count is checked before any field
C18_CsvRowShape ==
  (pc = "done" /\ format = "Csv" /\ ReadsBack("Csv", records)
   /\ Len(source) > Len(sink) /\ SubSeq(source, 1, Len(sink)) = sink
   /\ \E i \in 1..Len(AddedLine) : ~IsWhitespace(AddedLine[i])
   /\ Commas(AddedLine) + 1 # 8)
    => /\ ~result.ok
       /\ result.err.kind = "InvalidRow"
       /\ out = records

C18_Witness ==
  /\ pc = "done" /\ format = "Csv" /\ Len(records) = 1
  /\ Len(source) > Len(sink) /\ SubSeq(source, 1, Len(sink)) = sink
  /\ Commas(AddedLine) = 8
  /\ SubSeq(AddedLine, 1, 8) = <<"x", ",", "B", "O", "G", "U", "S", ",">>
  /\ out = records
  /\ result.err = ParseError("InvalidRow",
      <<"E", "x", "p", "e", "c", "t", "e", "d", " ", "8", " ", "f", "i", "e", "l", "d",
        "s", ",", " ", "g", "o", "t", " ", "9">>, "")

\* the keys of a txt record in the order they are written
KeyOrder ==
  << <<"T", "X", "_", "I", "D">>,
     <<"T", "X", "_", "T", "Y", "P", "E">>,
     <<"F", "R", "O", "M", "_", "U", "S", "E", "R", "_", "I", "D">>,
     <<"T", "O", "_", "U", "S", "E", "R", "_", "I", "D">>,
     <<"A", "M", "O", "U", "N", "T">>,
     <<"T", "I", "M", "E", "S", "T", "A", "M", "P">>,
     <<"S", "T", "A", "T", "U", "S">>,
     <<"D", "E", "S", "C", "R", "I", "P", "T", "I", "O", "N">> >>

\* the eight lines KEY: value of a record, each ended by a newline
KeyValueLines(r) ==
  Concat([i \in 1..8 |-> KeyOrder[i] \o <<":", " ">> \o txt_record_values(r)[i] \o <<"\n">>])

\* the number of empty lines of a stream of bytes
EmptyLines(s) ==
  Cardinality({i \in 1..Len(s) : s[i] = 10 /\ (i = 1 \/ s[i - 1] = 10)})

\* C19: the txt codec writes a record as its eight lines KEY: value in the
\* fixed order, each ended by a newline, and then one empty line, so that
\* one empty line stands between the records of a file
C19_TxtRecordWrite ==
  (pc = "writing" /\ format = "Txt" /\ widx > 1)
    => /\ LastWritten("Txt") = as_bytes(KeyValueLines(records[widx - 1]) \o <<"\n">>)
       /\ EmptyLines(LastWritten("Txt")) = 1
       /\ EmptyLines(sink) = widx - 1

C19_Witness ==
  /\ pc = "writing" /\ format = "Txt" /\ widx = 3
  /\ records[1] # records[2] /\ records[2].description = <<"a", ":", "b">>
  /\ sink = as_bytes(KeyValueLines(records[1]) \o <<"\n">> \o
                     KeyValueLines(records[2]) \o <<"\n">>)
  /\ EmptyLines(sink) = 2

\* C20 as stated: the txt file of a list of records is, for each record in
\* input order, its eight lines KEY: value, with no empty line between two
\* records and none after the last
C20_TxtSequenceWrite ==
  (pc = "written" /\ format = "Txt")
    => /\ sink = as_bytes(Concat([i \in 1..Len(records) |-> KeyValueLines(records[i])]))
       /\ EmptyLines(sink) = 0

\* what the sequence read returns when its per-record reads return dec
Sequenced(dec) ==
  LET stop == {i \in 1..Len(dec) : dec[i].tag # "some"}
      first == CHOOSE i \in stop : \A j \in stop : i <= j
  IN IF stop = {} THEN ReadOk([i \in 1..Len(dec) |-> dec[i].rec])
     ELSE IF dec[first].tag = "err" THEN ReadErr(dec[first].err)
     ELSE ReadOk([i \in 1..(first - 1) |-> dec[i].rec])

\* the source holds the records of the list, the lines of each in one of
\* the orders, and not in the canonical one
Reordered ==
  /\ source # sink
  /\ \E order \in LineOrders :
       source = as_bytes(Concat([i \in 1..Len(records) |->
                                  TxtLinesInOrder(txt_record_values(records[i]), order)]))

\* C21: reading txt records whose eight lines come in another order gives
\* what reading them in the canonical order gives
C21_TxtOrderIndependence ==
  (pc = "done" /\ format = "Txt" /\ ValidList(records) /\ Reordered)
    => result = Sequenced(Decoded("Txt", records))

C21_Witness ==
  /\ pc = "done" /\ format = "Txt" /\ Len(records) = 2 /\ records[1] # records[2]
  /\ Reordered
  /\ SubSeq(source, 1, 8) = as_bytes(<<"T", "X", "_", "T", "Y", "P", "E", ":">>)
  /\ result = ReadOk(records)

\* the lines of a text that are neither comment lines nor empty lines, up
\* to the first empty line that follows such a line
RECURSIVE FieldLinesBeforeBreak(_, _)
FieldLinesBeforeBreak(s, n) ==
  IF s = <<>> THEN n
  ELSE LET line == FirstTextLine(s)
           after == SubSeq(s, Len(line) + 1, Len(s))
       IN IF Head(line) = "#" THEN FieldLinesBeforeBreak(after, n)
          ELSE IF line = <<"\n">>
            THEN IF n = 0 THEN FieldLinesBeforeBreak(after, n) ELSE n
          ELSE FieldLinesBeforeBreak(after, n + 1)

\* what the source holds after the records that were written
AddedText == TextOf(SubSeq(source, Len(sink) + 1, Len(source)))

\* C22: after the records of a txt stream, the end of the stream with no
\* field line read (comment and empty lines aside) ends the read without
\* error; an empty line or the end of the stream after 1 to 7 field lines
\* makes it fail with InconsistentRecord
C22_TxtEndOfRecord ==
  (pc = "done" /\ format = "Txt" /\ ReadsBack("Txt", records)
   /\ Len(source) >= Len(sink) /\ SubSeq(source, 1, Len(sink)) = sink)
    => \E n \in {FieldLinesBeforeBreak(AddedText, 0)} :
         /\ n = 0 => result = ReadOk(records)
         /\ n \in 1..7 => /\ ~result.ok
                          /\ result.err.kind = "InconsistentRecord"
                          /\ out = records

C22_Witness ==
  /\ pc = "done" /\ format = "Txt" /\ Len(records) = 1
  /\ Len(source) > Len(sink) /\ SubSeq(source, 1, Len(sink)) = sink
  /\ SubSeq(AddedText, 1, 5) = <<"#", " ", "c", "\n", "\n">>
  /\ FieldLinesBeforeBreak(AddedText, 0) = 4
  /\ AddedText[Len(AddedText)] = "\n" /\ AddedText[Len(AddedText) - 1] # "\n"
  /\ out = records
  /\ result = ReadErr(ParseError("InconsistentRecord",
                                 <<"u", "n", "e", "x", "p", "e", "c", "t", "e", "d", " ",
                                   "e", "n", "d", " ", "o", "f", " ", "f", "i", "l", "e",
                                   " ", "w", "h", "i", "l", "e", " ", "p", "a", "r", "s",
                                   "i", "n", "g">>, ""))

\* the text of a line before its first colon
RECURSIVE BeforeColon(_)
BeforeColon(line) ==
  IF line = <<>> \/ Head(line) = ":" THEN <<>> ELSE <<Head(line)>> \o BeforeColon(Tail(line))

\* the keys of the first eight lines of a text
RECURSIVE KeysOfLines(_, _)
KeysOfLines(s, n) ==
  IF n = 0 \/ s = <<>> THEN {}
  ELSE {BeforeColon(FirstTextLine(s))} \cup
       KeysOfLines(SubSeq(s, Len(FirstTextLine(s)) + 1, Len(s)), n - 1)

\* the fixed field names that are not a key of the eight lines added
MissingNames == {KeyOrder[i] : i \in 1..8} \ KeysOfLines(AddedText, 8)

\* C23: eight key/value lines that do not hold each of the eight field
\* names once make the read fail with FieldNotFound naming a field that is
\* missing, whatever the values of the lines are
C23_TxtFieldCompleteness ==
  (pc = "done" /\ format = "Txt" /\ ReadsBack("Txt", records)
   /\ Len(source) > Len(sink) /\ SubSeq(source, 1, Len(sink)) = sink
   /\ FieldLinesBeforeBreak(AddedText, 0) = 8
   /\ Head(AddedText) \notin {"#", "\n"}
   /\ MissingNames # {})
    => /\ ~result.ok
       /\ result.err.kind = "FieldNotFound"
       /\ result.err.msg \in MissingNames
       /\ out = records

C23_Witness ==
  /\ pc = "done" /\ format = "Txt" /\ Len(records) = 1
  /\ Len(source) > Len(sink) + 9 /\ SubSeq(source, 1, Len(sink)) = sink
  /\ SubSeq(AddedText, 1, 9) = <<"T", "X", "_", "I", "D", ":", " ", "x", "\n">>
  /\ <<"F", "O", "O">> \in KeysOfLines(AddedText, 8)
  /\ out = records
  /\ result = ReadErr(ParseError("FieldNotFound", <<"T", "X", "_", "T", "Y", "P", "E">>, ""))

\* the text of a line after its first colon
RECURSIVE AfterColon(_)
AfterColon(line) ==
  IF line = <<>> THEN <<>>
  ELSE IF Head(line) = ":" THEN Tail(line)
  ELSE AfterColon(Tail(line))

\* the DESCRIPTION line of a record in the txt file, without its newline
DescriptionLine(r) == KeyOrder[8] \o <<":", " ">> \o r.description

\* C24 as stated: a txt line is split at its first colon only, so a line
\* whose value holds colons is accepted, and the value is the trimmed text
\* after the first colon
C24_TxtFirstColonSplit ==
  (pc = "done" /\ format = "Txt" /\ Clean /\ ValidList(records))
    => /\ result.ok
       /\ Len(result.val) = Len(records)
       /\ \A i \in 1..Len(result.val) :
            result.val[i].description = trim(AfterColon(DescriptionLine(records[i])))

\* the format a lower-case name stands for ("" when it stands for none)
NamedFormat(lower) ==
  IF lower = <<"c", "s", "v">> THEN "Csv"
  ELSE IF lower = <<"t", "x", "t">> THEN "Txt"
  ELSE IF lower = <<"b", "i", "n", "a", "r", "y">> THEN "Bin"
  ELSE ""

\* the string with its letters A..Z replaced by a..z
LowerCased(s) ==
  [i \in 1..Len(s) |->
     CASE s[i] = "B" -> "b" [] s[i] = "I" -> "i" [] s[i] = "N" -> "n" [] s[i] = "A" -> "a"
       [] s[i] = "R" -> "r" [] s[i] = "Y" -> "y" [] s[i] = "C" -> "c" [] s[i] = "S" -> "s"
       [] s[i] = "V" -> "v" [] s[i] = "T" -> "t" [] s[i] = "X" -> "x" [] s[i] = "J" -> "j"
       [] s[i] = "O" -> "o" [] OTHER -> s[i]]

\* C25: Format::from_str(s) is the format the lower-cased s names (csv,
\* txt, binary), or InvalidFormat(s) when it names none, and
\* Format::from_str(f.as_str()) is f for every format f
C25_FormatSelector ==
  sel_result # NotSelected =>
    /\ IF NamedFormat(LowerCased(sel_arg)) # ""
         THEN sel_result = [ok |-> TRUE, format |-> NamedFormat(LowerCased(sel_arg)),
                            err |-> NoError]
         ELSE sel_result = [ok |-> FALSE, format |-> "",
                            err |-> ParseError("InvalidFormat", sel_arg, "")]
    /\ sel_given # "" => sel_result.ok /\ sel_result.format = sel_given

C25_Witness ==
  /\ sel_arg = <<"B", "i", "N", "a", "r", "Y">>
  /\ sel_result.ok /\ sel_result.format = "Bin"

\* the part of the sink that holds the i-th record of the list
WrittenPart(i) ==
  SubSeq(sink, Len(Written(format, SubSeq(records, 1, i - 1))) + 1,
               Len(Written(format, SubSeq(records, 1, i))))

\* the part is the encoding of the record with every field as it is
EncodingOf(part, r) ==
  IF format = "Bin" THEN FrameOf(part, r)
  ELSE IF format = "Txt" THEN part = as_bytes(KeyValueLines(r) \o <<"\n">>)
  ELSE part = as_bytes(Join(txt_record_values(r), <<",">>) \o <<"\n">>)

\* C26: write_all writes a record that breaks the zero-id rule like any
\* other, its fields unchanged; the breach is reported, as InvalidUserId,
\* when the output is read back
C26_WriteDoesNotValidate ==
  \A i \in 1..Len(records) :
    ~ZeroIdRule(records[i]) =>
      /\ pc \in {"written", "read_start", "reading", "done"}
           => /\ Len(sink) = Len(Written(format, records))
              /\ EncodingOf(WrittenPart(i), records[i])
      /\ (pc = "done" /\ Clean /\ FirstRuleBreaker(records, i))
           => ~result.ok /\ result.err.kind = "InvalidUserId"

C26_Witness ==
  /\ pc = "done" /\ Clean /\ format = "Bin" /\ Len(records) = 2
  /\ records[2].transaction_type = "Transfer" /\ records[2].from_user_id = 0
  /\ ZeroIdRule(records[1])
  /\ SubSeq(WrittenPart(2), 17, 25) = <<1, 0, 0, 0, 0, 0, 0, 0, 0>>
  /\ result = ReadErr(ParseError("InvalidUserId", <<"0">>, "Transfer"))

\* the flag after the first n characters of the line: it starts as
\* "outside" (FALSE) and every quote character flips it
InsideAfter(l, n) == Cardinality({j \in 1..n : l[j] = "\""}) % 2 = 1

\* the places of the delimiters met while the flag is "outside"
Cuts(l) == {i \in 1..Len(l) : l[i] = "," /\ ~InsideAfter(l, i - 1)}

\* the place of the k-th of them: 0 for k = 0, past the end of the line
\* when there are fewer than k
CutAt(l, k) ==
  IF k = 0 THEN 0
  ELSE IF k > Cardinality(Cuts(l)) THEN Len(l) + 1
  ELSE CHOOSE i \in Cuts(l) : Cardinality({j \in Cuts(l) : j <= i}) = k

\* C27: the k-th field the Separator returns is the text between the
\* (k-1)-th and the k-th delimiter met outside quotes (or the end of the
\* line), quote characters included; a delimiter inside quotes ends no
\* field; the flag the Separator keeps is the flag of the scan so far
C27_SeparatorQuoteFlag ==
  /\ \A k \in 1..Len(sep_fields) :
       /\ k <= Cardinality(Cuts(sep_line)) + 1
       /\ sep_fields[k] = SubSeq(sep_line, CutAt(sep_line, k - 1) + 1, CutAt(sep_line, k) - 1)
  /\ \E scanned \in {IF CutAt(sep_line, Len(sep_fields)) > Len(sep_line) THEN Len(sep_line)
                      ELSE CutAt(sep_line, Len(sep_fields))} :
       /\ sep_index = Len(as_bytes(SubSeq(sep_line, 1, scanned)))
       /\ sep_inside = InsideAfter(sep_line, scanned)

C27_Witness ==
  /\ sep_line = <<"a", ",", "\"", ",", "\"">>
  /\ sep_done
  /\ sep_fields = << <<"a">>, <<"\"", ",", "\"">> >>

\* C28 as stated: a non-empty line with n delimiters outside quotes gives
\* n + 1 fields, which joined by the delimiter are the line; the empty
\* line gives no field
C28_SeparatorFieldCount ==
  sep_done =>
    IF sep_line = <<>> THEN sep_fields = <<>>
    ELSE /\ Len(sep_fields) = Cardinality(Cuts(sep_line)) + 1
         /\ Join(sep_fields, <<",">>) = sep_line

\* the line of bytes is empty or holds white space only
Blank(line) == \A i \in 1..Len(line) : line[i] \in {32, 9, 13, 10}

\* the csv source holds the header and the lines of the first k records
\* of the list, all of which read back, and then a blank line
BlankLineAfter(k) ==
  LET head == Written("Csv", SubSeq(records, 1, k))
  IN /\ Len(source) > Len(head)
     /\ SubSeq(source, 1, Len(head)) = head
     /\ Blank(FirstLine(SubSeq(source, Len(head) + 1, Len(source))))
     /\ ReadsBack("Csv", SubSeq(records, 1, k))

\* C29: the first blank line after the header ends the csv read like the
\* end of the stream: the result is the records before that line, and no
\* line after it is read
C29_CsvBlankLineStop ==
  \A k \in 0..Len(records) :
    (pc = "done" /\ format = "Csv" /\ BlankLineAfter(k))
      => /\ result = ReadOk(SubSeq(records, 1, k))
         /\ pos = Len(Written("Csv", SubSeq(records, 1, k))) +
                  Len(FirstLine(SubSeq(source, Len(Written("Csv", SubSeq(records, 1, k))) + 1,
                                       Len(source))))

C29_Witness ==
  /\ pc = "done" /\ format = "Csv" /\ Len(records) = 2
  /\ BlankLineAfter(1)
  /\ source[Len(Written("Csv", SubSeq(records, 1, 1))) + 1] = 32
  /\ source[Len(source) - 1] = 101
  /\ result = ReadOk(<<records[1]>>)

\* C30: every iteration of the loop of from_read consumes at least one
\* byte of the source or ends the read with a result, and a read that has
\* started returns a record list or an error
C30_ReadTerminates ==
  /\ [][pc = "reading" => (pos' > pos \/ (pc' = "done" /\ result' # Pending))]_vars
  /\ (pc = "read_start") ~> (pc = "done" /\ result # Pending)

C30_Witness ==
  /\ pc = "done" /\ format = "Txt" /\ Len(records) = 2
  /\ Len(source) > Len(sink) /\ SubSeq(source, Len(sink) + 1, Len(sink) + 5) = <<35, 32, 99, 10, 10>>
  /\ result.ok /\ Len(result.val) = 3
  /\ pos = Len(source)

=============================================================================
